---- MODULE Spec2Model ----
(***************************************************************************)
(* Text Multi Search: the rule compiler (TMS.Engine.buildMatchers) and the *)
(* single-pass scanner (TMS.Engine.processText) of js/core/engine.js.      *)
(*                                                                         *)
(* A JavaScript string is a sequence of UTF-16 code units; a code unit is  *)
(* written as a one-character TLA+ string ("a", "\n", "$"), the ideograph  *)
(* U+4E2D as "U4E2D" and the private placeholder U+FFFF as "UFFFF".        *)
(* Indices are 0-based as in the source.                                   *)
(***************************************************************************)
EXTENDS Integers, Sequences, FiniteSets, TLC

(***************************************************************************)
(* Bounds of the model.                                                    *)
(***************************************************************************)
MaxSrcLen == 3
MaxRules == 2

(***************************************************************************)
(* String primitives of the JavaScript runtime.                            *)
(***************************************************************************)
Min(S) == CHOOSE x \in S : \A y \in S : x <= y
Max(S) == CHOOSE x \in S : \A y \in S : x >= y

\* String.prototype.substring(a, b)
Substring(s, a, b) == SubSeq(s, a + 1, b)

\* s.startsWith(p, i)
StartsWithAt(s, p, i) == i + Len(p) <= Len(s) /\ SubSeq(s, i + 1, i + Len(p)) = p
StartsWith(s, p) == StartsWithAt(s, p, 0)
EndsWith(s, p) == Len(p) <= Len(s) /\ SubSeq(s, Len(s) - Len(p) + 1, Len(s)) = p

\* s.indexOf(p, from), -1 when p does not occur
IndexOfFrom(s, p, from) ==
    LET hits == { i \in from..(Len(s) - Len(p)) : StartsWithAt(s, p, i) }
    IN  IF hits = {} THEN -1 ELSE Min(hits)
IndexOf(s, p) == IndexOfFrom(s, p, 0)
Includes(s, p) == IndexOf(s, p) # -1

\* the characters matched by \s and removed by trim()
WhiteSpace == {" ", "\t", "\r", "\n"}
Digits == {"0", "1", "2", "3", "4", "5", "6", "7", "8", "9"}
\* code units of the range U+4E00..U+9FFF (two representatives)
CjkChars == {"U4E2D", "U6587"}

TrimStart(s) ==
    LET keep == { i \in 1..Len(s) : s[i] \notin WhiteSpace }
    IN  IF keep = {} THEN <<>> ELSE SubSeq(s, Min(keep), Len(s))
TrimEnd(s) ==
    LET keep == { i \in 1..Len(s) : s[i] \notin WhiteSpace }
    IN  IF keep = {} THEN <<>> ELSE SubSeq(s, 1, Max(keep))
\* String.prototype.trim()
Trim(s) == TrimEnd(TrimStart(s))

\* s.split(sep) for a non-empty string separator
RECURSIVE Split(_, _)
Split(s, sep) ==
    LET i == IndexOf(s, sep)
    IN  IF i = -1 THEN <<s>>
        ELSE <<Substring(s, 0, i)>> \o Split(Substring(s, i + Len(sep), Len(s)), sep)

\* parts.join(sep)
RECURSIVE Join(_, _)
Join(parts, sep) ==
    IF Len(parts) = 0 THEN <<>>
    ELSE IF Len(parts) = 1 THEN parts[1]
    ELSE parts[1] \o sep \o Join(Tail(parts), sep)

RECURSIVE Flatten(_)
Flatten(seqs) == IF seqs = <<>> THEN <<>> ELSE Head(seqs) \o Flatten(Tail(seqs))

(***************************************************************************)
(* js/core/utils.js                                                        *)
(***************************************************************************)
HtmlEntity(c) ==
    CASE c = "&" -> <<"&", "a", "m", "p", ";">>
      [] c = "<" -> <<"&", "l", "t", ";">>
      [] c = ">" -> <<"&", "g", "t", ";">>
      [] c = "\"" -> <<"&", "q", "u", "o", "t", ";">>
      [] c = "'" -> <<"&", "#", "0", "3", "9", ";">>
      [] OTHER -> <<c>>

\* TMS.Utils.escapeHtml
escapeHtml(text) == Flatten([i \in 1..Len(text) |-> HtmlEntity(text[i])])

RegExpSpecials == {".", "*", "+", "?", "^", "$", "{", "}", "(", ")", "|", "[", "]", "\\"}

\* TMS.Utils.escapeRegExp: every special character gets a backslash in front
escapeRegExp(string) ==
    Flatten([i \in 1..Len(string) |->
        IF string[i] \in RegExpSpecials THEN <<"\\", string[i]>> ELSE <<string[i]>>])

(***************************************************************************)
(* Regular expressions.  new RegExp(pattern, 'g') is modelled by parsing   *)
(* the pattern text into alternatives, each a sequence of items: a literal *)
(* character, the group (\d+) or the group of one ideograph.              *)
(***************************************************************************)
NumGroup == <<"(", "\\", "d", "+", ")">>
CjkGroup == <<"(", "[", "\\", "u", "4", "E", "0", "0", "-", "\\", "u", "9", "F", "F", "F", "]", ")">>

Lit(c) == [t |-> "lit", c |-> c]
NumItem == [t |-> "num", c |-> ""]
CjkItem == [t |-> "cjk", c |-> ""]

\* new RegExp(pattern, 'g'): the alternatives of the pattern, in order
RECURSIVE NewRegExp(_)
NewRegExp(pattern) ==
    IF pattern = <<>> THEN << <<>> >>
    ELSE IF Head(pattern) = "|" THEN << <<>> >> \o NewRegExp(Tail(pattern))
    ELSE LET isNum == Head(pattern) = "(" /\ StartsWith(pattern, NumGroup)
             isCjk == Head(pattern) = "(" /\ StartsWith(pattern, CjkGroup)
             item == IF isNum THEN NumItem
                     ELSE IF isCjk THEN CjkItem
                     ELSE IF Head(pattern) = "\\" THEN Lit(pattern[2])
                     ELSE Lit(Head(pattern))
             used == IF isNum THEN Len(NumGroup)
                     ELSE IF isCjk THEN Len(CjkGroup)
                     ELSE IF Head(pattern) = "\\" THEN 2
                     ELSE 1
             rest == NewRegExp(Substring(pattern, used, Len(pattern)))
         IN  << <<item>> \o Head(rest) >> \o Tail(rest)

\* number of capturing groups of one alternative
GroupCount(alt) == Cardinality({ i \in 1..Len(alt) : alt[i].t # "lit" })

\* a capture group of a match result: a string or undefined
Undefined == [kind |-> "undefined"]
Str(v) == [kind |-> "string", val |-> v]

NoMatchAt == [ok |-> FALSE, end |-> 0, caps |-> <<>>]

\* length of the run of digits of str starting at pos
DigitRun(str, pos) ==
    LET stop == { j \in pos..Len(str) : j = Len(str) \/ str[j + 1] \notin Digits }
    IN  Min(stop) - pos

\* Backtracking match of the items k.. of one alternative at position pos:
\* \d+ is greedy and gives characters back one at a time.
RECURSIVE MatchItems(_, _, _, _)
RECURSIVE TryDigits(_, _, _, _, _)
MatchItems(items, k, str, pos) ==
    IF k > Len(items) THEN [ok |-> TRUE, end |-> pos, caps |-> <<>>]
    ELSE IF items[k].t = "lit" THEN
        IF pos < Len(str) /\ str[pos + 1] = items[k].c
        THEN MatchItems(items, k + 1, str, pos + 1)
        ELSE NoMatchAt
    ELSE IF items[k].t = "cjk" THEN
        IF pos < Len(str) /\ str[pos + 1] \in CjkChars
        THEN LET r == MatchItems(items, k + 1, str, pos + 1)
             IN  IF r.ok THEN [r EXCEPT !.caps = <<Str(<<str[pos + 1]>>)>> \o r.caps]
                 ELSE NoMatchAt
        ELSE NoMatchAt
    ELSE TryDigits(items, k, str, pos, DigitRun(str, pos))
\* faulty variant: [num] compiled to (\d*), which also matches no digit
TryDigits_Star(items, k, str, pos, n) ==
    LET r == MatchItems(items, k + 1, str, pos + n)
    IN  IF r.ok THEN [r EXCEPT !.caps = <<Str(Substring(str, pos, pos + n))>> \o r.caps]
        ELSE IF n = 0 THEN NoMatchAt
        ELSE TryDigits(items, k, str, pos, n - 1)
TryDigits(items, k, str, pos, n) ==
    IF n = 0 THEN NoMatchAt
    ELSE LET r == MatchItems(items, k + 1, str, pos + n)
         IN  IF r.ok THEN [r EXCEPT !.caps = <<Str(Substring(str, pos, pos + n))>> \o r.caps]
             ELSE TryDigits(items, k, str, pos, n - 1)

\* the groups array of a match of alternative a: the groups of the other
\* alternatives are undefined
GroupsOf(regex, a, caps) ==
    LET before == Flatten([j \in 1..(a - 1) |-> [g \in 1..GroupCount(regex[j]) |-> Undefined]])
        after == Flatten([j \in 1..(Len(regex) - a) |->
                            [g \in 1..GroupCount(regex[a + j]) |-> Undefined]])
    IN  before \o caps \o after

Null == [kind |-> "null"]
MatchResult(index, text, groups) ==
    [kind |-> "match", index |-> index, text |-> text, len |-> Len(text), groups |-> groups]

\* faulty variant: the alternative with the longest match at position pos
MatchAltsAt_Longest(regex, a, str, pos) ==
    LET ok == { j \in a..Len(regex) : MatchItems(regex[j], 1, str, pos).ok }
        EndOf(j) == MatchItems(regex[j], 1, str, pos).end
        best == CHOOSE j \in ok :
                    \A l \in ok : EndOf(j) > EndOf(l) \/ (EndOf(j) = EndOf(l) /\ j <= l)
    IN  IF ok = {} THEN Null
        ELSE MatchResult(pos, Substring(str, pos, EndOf(best)),
                         GroupsOf(regex, best, MatchItems(regex[best], 1, str, pos).caps))

\* the first alternative, in order, that matches at position pos
RECURSIVE MatchAltsAt(_, _, _, _)
MatchAltsAt(regex, a, str, pos) ==
    IF a > Len(regex) THEN Null
    ELSE LET r == MatchItems(regex[a], 1, str, pos)
         IN  IF r.ok
             THEN MatchResult(pos, Substring(str, pos, r.end), GroupsOf(regex, a, r.caps))
             ELSE MatchAltsAt(regex, a + 1, str, pos)

\* regex.lastIndex = lastIndex; regex.exec(str): the leftmost match at or
\* after lastIndex, as { index, text, len, groups }, or null
RECURSIVE RegExpExec(_, _, _)
RegExpExec(regex, str, lastIndex) ==
    IF lastIndex > Len(str) THEN Null
    ELSE LET r == MatchAltsAt(regex, 1, str, lastIndex)
         IN  IF r # Null THEN r ELSE RegExpExec(regex, str, lastIndex + 1)

\* faulty variant: the assignment to lastIndex is missing and the search
\* starts at the index the regex object was left with
ExecFrom_Stale(regex, str, assigned, stale) == RegExpExec(regex, str, stale)

\* m.regex.lastIndex = assigned; m.regex.exec(str) on a regex object whose
\* lastIndex was stale before the assignment
ExecFrom(regex, str, assigned, stale) == RegExpExec(regex, str, assigned)

\* the lastIndex a global regex has after exec returned res
IndexAfter(res) == IF res.kind = "match" THEN res.index + res.len ELSE 0

(***************************************************************************)
(* TMS.Engine.buildMatchers                                                *)
(***************************************************************************)
SEPARATOR == <<"/", "/", "/">>
LINE_TOKEN == <<"[", "l", "i", "n", "e", "]">>
DEL_TOKEN == <<"[", "d", "e", "l", "]">>
OR_TOKEN == <<"[", "o", "r", "]">>
NUM_TOKEN == <<"[", "n", "u", "m", "]">>
CJK_TOKEN == <<"[", "c", "j", "k", "]">>
ESCAPED_OR == <<"\\">> \o OR_TOKEN
OR_KEYWORD_PLACEHOLDER == <<"UFFFF">>
LINE_REF == <<"$", "$", "L", "I", "N", "E", "$", "$">>

\* faulty variant: the split is at the token alone and the white space
\* around it stays in the pieces
RECURSIVE SplitOr_KeepsSpace(_)
SplitOr_KeepsSpace(s) ==
    LET i == IndexOf(s, OR_TOKEN)
    IN  IF i = -1 THEN <<s>>
        ELSE <<Substring(s, 0, i)>>
             \o SplitOr_KeepsSpace(Substring(s, i + Len(OR_TOKEN), Len(s)))

\* tempSearch.split(/\s*\[or\]\s*/): the pieces between the [or] tokens,
\* without the white space that touches a token
RECURSIVE SplitOr(_)
SplitOr(s) ==
    LET i == IndexOf(s, OR_TOKEN)
    IN  IF i = -1 THEN <<s>>
        ELSE <<TrimEnd(Substring(s, 0, i))>>
             \o SplitOr(TrimStart(Substring(s, i + Len(OR_TOKEN), Len(s))))

\* p.replace(/\\\[(num|cjk)\\\]/g, ...): the escaped wildcard tokens of an
\* escaped segment become capturing groups; order lists their kinds
ESCAPED_NUM == escapeRegExp(NUM_TOKEN)
ESCAPED_CJK == escapeRegExp(CJK_TOKEN)
RECURSIVE ReplaceWildcards(_)
ReplaceWildcards(p) ==
    IF p = <<>> THEN [pat |-> <<>>, order |-> <<>>]
    ELSE IF Head(p) # "\\" THEN
        LET r == ReplaceWildcards(Tail(p))
        IN  [r EXCEPT !.pat = <<Head(p)>> \o r.pat]
    ELSE IF StartsWith(p, ESCAPED_NUM) THEN
        LET r == ReplaceWildcards(Substring(p, Len(ESCAPED_NUM), Len(p)))
        IN  [pat |-> NumGroup \o r.pat, order |-> <<"num">> \o r.order]
    ELSE IF StartsWith(p, ESCAPED_CJK) THEN
        LET r == ReplaceWildcards(Substring(p, Len(ESCAPED_CJK), Len(p)))
        IN  [pat |-> CjkGroup \o r.pat, order |-> <<"cjk">> \o r.order]
    ELSE LET r == ReplaceWildcards(Tail(p))
         IN  [r EXCEPT !.pat = <<Head(p)>> \o r.pat]

\* segments.filter(s => s.length > 0)
RECURSIVE NonEmpty(_)
NonEmpty(segs) ==
    IF segs = <<>> THEN <<>>
    ELSE IF Len(Head(segs)) > 0 THEN <<Head(segs)>> \o NonEmpty(Tail(segs))
    ELSE NonEmpty(Tail(segs))

\* one segment: restore the escaped [or], escape, substitute the wildcards
ProcessSegment(s) ==
    ReplaceWildcards(escapeRegExp(Join(Split(s, OR_KEYWORD_PLACEHOLDER), OR_TOKEN)))

\* replace.replace(/\$(?!\d)/g, () => '$$$$'): the function's result is
\* inserted as it is, four dollar signs for each "$" no digit follows
RECURSIVE EscapeDollars(_)
EscapeDollars(s) ==
    IF s = <<>> THEN <<>>
    ELSE IF Head(s) = "$" /\ ~(Len(s) >= 2 /\ s[2] \in Digits)
         THEN <<"$", "$", "$", "$">> \o EscapeDollars(Tail(s))
         ELSE <<Head(s)>> \o EscapeDollars(Tail(s))

\* decimal digits of a natural number
RECURSIVE ToDecimal(_)
ToDecimal(n) ==
    LET d == <<"0", "1", "2", "3", "4", "5", "6", "7", "8", "9">>[(n % 10) + 1]
    IN  IF n < 10 THEN <<d>> ELSE ToDecimal(n \div 10) \o <<d>>

\* faulty variant of lines 67-69: a token is bound whatever its kind
RECURSIVE BindWildcards_AnyKind(_, _, _)
BindWildcards_AnyKind(s, wildcardOrder, gIdx) ==
    IF s = <<>> THEN <<>>
    ELSE IF StartsWith(s, NUM_TOKEN) \/ StartsWith(s, CJK_TOKEN) THEN
        LET rest == Substring(s, Len(NUM_TOKEN), Len(s))
        IN  IF gIdx < Len(wildcardOrder)
            THEN <<"$">> \o ToDecimal(gIdx + 1) \o BindWildcards_AnyKind(rest, wildcardOrder, gIdx + 1)
            ELSE SubSeq(s, 1, Len(NUM_TOKEN)) \o BindWildcards_AnyKind(rest, wildcardOrder, gIdx)
    ELSE <<Head(s)>> \o BindWildcards_AnyKind(Tail(s), wildcardOrder, gIdx)

\* replacePattern.replace(/\[(num|cjk)\]/g, (m, type) =>
\*     (gIdx < wildcardOrder.length && wildcardOrder[gIdx] === type) ? `$${++gIdx}` : m)
RECURSIVE BindWildcards(_, _, _)
BindWildcards(s, wildcardOrder, gIdx) ==
    IF s = <<>> THEN <<>>
    ELSE IF StartsWith(s, NUM_TOKEN) \/ StartsWith(s, CJK_TOKEN) THEN
        LET type == IF StartsWith(s, NUM_TOKEN) THEN "num" ELSE "cjk"
            rest == Substring(s, Len(NUM_TOKEN), Len(s))
        IN  IF gIdx < Len(wildcardOrder) /\ wildcardOrder[gIdx + 1] = type
            THEN <<"$">> \o ToDecimal(gIdx + 1) \o BindWildcards(rest, wildcardOrder, gIdx + 1)
            ELSE SubSeq(s, 1, Len(NUM_TOKEN)) \o BindWildcards(rest, wildcardOrder, gIdx)
    ELSE <<Head(s)>> \o BindWildcards(Tail(s), wildcardOrder, gIdx)

\* the replacement template of a rule (engine.js lines 63-74)
ReplacePattern(replace, wildcardOrder, isReplacement, isLineMode) ==
    LET escaped == IF isReplacement THEN EscapeDollars(replace) ELSE replace
        bound == IF isReplacement /\ Len(wildcardOrder) > 0
                 THEN BindWildcards(escaped, wildcardOrder, 0)
                 ELSE escaped
    IN  IF isLineMode /\ Len(wildcardOrder) = 0 /\ isReplacement /\ Includes(bound, LINE_TOKEN)
        THEN Join(Split(bound, LINE_TOKEN), LINE_REF)
        ELSE bound

\* the body of lines.forEach: the matchers (none or one) of one rule line
MatcherOfLine(line) ==
    LET trimmed == Trim(line)
        sepIndex == IndexOf(trimmed, SEPARATOR)
        isReplacement == sepIndex # -1
        search0 == IF isReplacement THEN Trim(Substring(trimmed, 0, sepIndex)) ELSE trimmed
        replace0 == IF isReplacement
                    THEN Trim(Substring(trimmed, sepIndex + 3, Len(trimmed)))
                    ELSE trimmed
        isDel == isReplacement /\ replace0 = DEL_TOKEN
        replace == IF isDel THEN <<>> ELSE replace0
        isLineMode == StartsWith(search0, LINE_TOKEN)
        search == IF isLineMode THEN Trim(Substring(search0, Len(LINE_TOKEN), Len(search0)))
                  ELSE search0
        tempSearch == Join(Split(search, ESCAPED_OR), OR_KEYWORD_PLACEHOLDER)
        segments == NonEmpty(SplitOr(tempSearch))
        processed == [i \in 1..Len(segments) |-> ProcessSegment(segments[i])]
        wildcardOrder == Flatten([i \in 1..Len(processed) |-> processed[i].order])
        pattern == Join([i \in 1..Len(processed) |-> processed[i].pat], <<"|">>)
    IN  IF trimmed = <<>> \/ StartsWith(trimmed, SEPARATOR) THEN <<>>
        ELSE IF search0 = <<>> THEN <<>>
        ELSE IF search = <<>> THEN <<>>
        ELSE IF Len(processed) = 0 THEN <<>>
        ELSE << [ regex |-> NewRegExp(pattern),
                  searchStr |-> search,
                  replace |-> replace,
                  replacePattern |-> ReplacePattern(replace, wildcardOrder,
                                                    isReplacement, isLineMode),
                  isReplacement |-> isReplacement,
                  isLineMode |-> isLineMode,
                  isDel |-> isDel ] >>

\* faulty variant: a rule is put before the rules of the lines above it
RECURSIVE Reversed(_)
Reversed(s) == IF s = <<>> THEN <<>> ELSE Reversed(Tail(s)) \o <<Head(s)>>
buildMatchers_Unshift(keywordsValue) ==
    LET lines == Split(keywordsValue, <<"\n">>)
    IN  Reversed(Flatten([i \in 1..Len(lines) |-> MatcherOfLine(lines[i])]))

\* TMS.Engine.buildMatchers(keywordsValue)
buildMatchers(keywordsValue) ==
    LET lines == Split(keywordsValue, <<"\n">>)
    IN  Flatten([i \in 1..Len(lines) |-> MatcherOfLine(lines[i])])

(***************************************************************************)
(* TMS.Engine.processText: helpers                                         *)
(***************************************************************************)
\* JavaScript's Infinity: larger than every index of a source text
Infinity == 1000000

\* text.replace(/\r?\n$/, '')
StripTerminator(text) ==
    IF EndsWith(text, <<"\r", "\n">>) THEN SubSeq(text, 1, Len(text) - 2)
    ELSE IF EndsWith(text, <<"\n">>) THEN SubSeq(text, 1, Len(text) - 1)
    ELSE text

\* originalText.match(/\r?\n$/)?.[0] || ''
TrailingNewline(text) ==
    IF EndsWith(text, <<"\r", "\n">>) THEN <<"\r", "\n">>
    ELSE IF EndsWith(text, <<"\n">>) THEN <<"\n">>
    ELSE <<>>

\* parseInt(digits, 10)
RECURSIVE ParseInt(_)
ParseInt(digits) ==
    IF digits = <<>> THEN 0
    ELSE 10 * ParseInt(SubSeq(digits, 1, Len(digits) - 1))
         + (CHOOSE d \in 0..9 : ToDecimal(d) = <<digits[Len(digits)]>>)

\* faulty variant of line 113: the group index taken as zero-based
GroupText_ZeroBased(groups, grpIdx) ==
    LET idx == ParseInt(grpIdx)
    IN  IF idx >= 0 /\ idx < Len(groups) /\ groups[idx + 1] # Undefined
        THEN groups[idx + 1].val
        ELSE <<>>

\* the callback of getDisplayContent for a capture reference $grpIdx
GroupText(groups, grpIdx) ==
    LET idx == ParseInt(grpIdx) - 1
    IN  IF idx >= 0 /\ idx < Len(groups) /\ groups[idx + 1] # Undefined
        THEN groups[idx + 1].val
        ELSE <<>>

\* replacePattern.replace(/(\$\$LINE\$\$)|(\$\$)|(\$(\d+))/g, ...)
RECURSIVE ExpandTemplate(_, _)
ExpandTemplate(pattern, matchData) ==
    IF pattern = <<>> THEN <<>>
    ELSE IF StartsWith(pattern, LINE_REF) THEN
        StripTerminator(matchData.text)
        \o ExpandTemplate(Substring(pattern, Len(LINE_REF), Len(pattern)), matchData)
    ELSE IF StartsWith(pattern, <<"$", "$">>) THEN
        <<"$">> \o ExpandTemplate(Substring(pattern, 2, Len(pattern)), matchData)
    ELSE IF Head(pattern) = "$" /\ DigitRun(pattern, 1) > 0 THEN
        LET n == DigitRun(pattern, 1)
        IN  GroupText(matchData.groups, Substring(pattern, 1, 1 + n))
            \o ExpandTemplate(Substring(pattern, 1 + n, Len(pattern)), matchData)
    ELSE <<Head(pattern)>> \o ExpandTemplate(Tail(pattern), matchData)

\* faulty variant of line 107: a [del] rule shows the matched text
getDisplayContent_DelShowsMatch(matcher, matchData) ==
    IF ~matcher.isReplacement \/ matcher.isDel THEN matchData.text
    ELSE ExpandTemplate(matcher.replacePattern, matchData)

\* getDisplayContent(matcher, matchData)
getDisplayContent(matcher, matchData) ==
    IF ~matcher.isReplacement THEN matchData.text
    ELSE ExpandTemplate(matcher.replacePattern, matchData)

\* `<span class="${cls}">${TMS.Utils.escapeHtml(content)}</span>`: one span
\* of the html, kept as its class and its escaped text
Span(cls, content) == [cls |-> cls, text |-> escapeHtml(content)]

\* matchers.filter(...): the references (indices into matchers) that pass
RECURSIVE FilterLineMode(_, _, _)
FilterLineMode(ms, i, wanted) ==
    IF i > Len(ms) THEN <<>>
    ELSE IF ms[i].isLineMode = wanted THEN <<i>> \o FilterLineMode(ms, i + 1, wanted)
    ELSE FilterLineMode(ms, i + 1, wanted)

(***************************************************************************)
(* The pre-pass over the lines (engine.js lines 119-140).                  *)
(***************************************************************************)
\* the characters JavaScript's ^ and $ treat as line terminators under /m
LineTerminators == {"\n", "\r"}

\* lineRegex.lastIndex = lastIndex; lineRegex.exec(sourceText) for
\* /^[\s\S]*?(\r?\n|$)/gm: [index, text] or Null
LineExec(sourceText, lastIndex) ==
    LET n == Len(sourceText)
        starts == { p \in lastIndex..n : p = 0 \/ sourceText[p] \in LineTerminators }
        p == Min(starts)
        \* the lazy body stops at the first position where \r?\n or $ matches
        stops == { e \in p..n : e = n \/ sourceText[e + 1] \in LineTerminators }
        e == Min(stops)
        end == IF StartsWithAt(sourceText, <<"\r", "\n">>, e) THEN e + 2
               ELSE IF StartsWithAt(sourceText, <<"\n">>, e) THEN e + 1
               ELSE e
    IN  IF lastIndex > n \/ starts = {} THEN Null
        ELSE [kind |-> "match", index |-> p, text |-> Substring(sourceText, p, end)]

\* faulty variant of lines 126-138 without the break: every matching
\* line-mode rule pushes a range for the line
RECURSIVE RangeOfLine_NoBreak(_, _, _, _, _)
RangeOfLine_NoBreak(ms, lineMatchers, k, lineMatch, idx) ==
    IF k > Len(lineMatchers) THEN [ranges |-> <<>>, idx |-> idx]
    ELSE LET m == lineMatchers[k]
             res == ExecFrom(ms[m].regex, lineMatch.text, 0, idx[m])
             more == RangeOfLine_NoBreak(ms, lineMatchers, k + 1, lineMatch,
                                         [idx EXCEPT ![m] = IndexAfter(res)])
         IN  IF res # Null
             THEN [ ranges |->
                      << [ start |-> lineMatch.index,
                           end |-> lineMatch.index + Len(lineMatch.text),
                           matcher |-> m,
                           matchData |-> MatchResult(lineMatch.index, lineMatch.text, res.groups) ] >>
                      \o more.ranges,
                    idx |-> more.idx ]
             ELSE more

\* for (let m of lineMatchers): the priority range of one line, if any, and
\* the lastIndex of every matcher's regex afterwards (idx, by matcher)
RECURSIVE RangeOfLine(_, _, _, _, _)
RangeOfLine(ms, lineMatchers, k, lineMatch, idx) ==
    IF k > Len(lineMatchers) THEN [ranges |-> <<>>, idx |-> idx]
    ELSE LET m == lineMatchers[k]
             res == ExecFrom(ms[m].regex, lineMatch.text, 0, idx[m])
             after == [idx EXCEPT ![m] = IndexAfter(res)]
         IN  IF res # Null
             THEN [ ranges |->
                      << [ start |-> lineMatch.index,
                           end |-> lineMatch.index + Len(lineMatch.text),
                           matcher |-> m,
                           matchData |-> MatchResult(lineMatch.index, lineMatch.text, res.groups) ] >>,
                    idx |-> after ]
             ELSE RangeOfLine(ms, lineMatchers, k + 1, lineMatch, after)

\* while ((lineMatch = lineRegex.exec(sourceText)) !== null)
RECURSIVE LineLoop(_, _, _, _, _)
LineLoop(ms, lineMatchers, sourceText, lastIndex, idx) ==
    LET lineMatch == LineExec(sourceText, lastIndex)
    IN  IF lineMatch = Null THEN [ranges |-> <<>>, idx |-> idx]
        ELSE IF lineMatch.text = <<>> THEN [ranges |-> <<>>, idx |-> idx]
        ELSE LET one == RangeOfLine(ms, lineMatchers, 1, lineMatch, idx)
                 rest == LineLoop(ms, lineMatchers, sourceText,
                                  lineMatch.index + Len(lineMatch.text), one.idx)
             IN  [ranges |-> one.ranges \o rest.ranges, idx |-> rest.idx]

\* lines 119-140: the priority ranges, and the lastIndex of every matcher's
\* regex after the pre-pass, for matchers whose regexes hold idx before it
PrePass(ms, sourceText, idx) ==
    LET lineMatchers == FilterLineMode(ms, 1, TRUE)
    IN  IF Len(lineMatchers) > 0 THEN LineLoop(ms, lineMatchers, sourceText, 0, idx)
        ELSE [ranges |-> <<>>, idx |-> idx]

\* new RegExp(pattern, 'g'): lastIndex is 0
NewIndexes(ms) == [m \in 1..Len(ms) |-> 0]

\* the priority ranges of freshly compiled matchers
PriorityRanges(ms, sourceText) == PrePass(ms, sourceText, NewIndexes(ms)).ranges

\* line 143: textMatchers.forEach(m => m.regex.lastIndex = 0)
ResetTextMatchers(ms, idx) == [m \in 1..Len(ms) |-> IF ms[m].isLineMode THEN idx[m] ELSE 0]

\* line 144: new Array(textMatchers.length).fill(undefined)
NewNextMatches(n) == [i \in 1..n |-> Undefined]

(***************************************************************************)
(* One iteration of the main loop (engine.js lines 147-204).               *)
(***************************************************************************)
\* faulty variant of line 156: a line-mode rule keeps the terminator even
\* when it is a [del] rule
WithNewline_DelKeeps(matcher, content, originalText) ==
    LET trailingNewline == TrailingNewline(originalText)
        shouldPreserveNewline == content # <<>> \/ matcher.isLineMode
    IN  IF matcher.isReplacement /\ shouldPreserveNewline
           /\ ~EndsWith(content, <<"\n">>) /\ trailingNewline # <<>>
        THEN content \o trailingNewline
        ELSE content

\* lines 155-159: the content of a priority range with its terminator
WithNewline(matcher, content, originalText) ==
    LET trailingNewline == TrailingNewline(originalText)
        shouldPreserveNewline == content # <<>> \/ (matcher.isLineMode /\ ~matcher.isDel)
    IN  IF matcher.isReplacement /\ shouldPreserveNewline
           /\ ~EndsWith(content, <<"\n">>) /\ trailingNewline # <<>>
        THEN content \o trailingNewline
        ELSE content

\* faulty variant of lines 152 and 200: every span of a rule is Replaced
ClassOf_AlwaysReplace(matcher) == "diff-replace"

\* lines 152 and 200
ClassOf(matcher) == IF matcher.isReplacement THEN "diff-replace" ELSE "diff-add"

\* worker.js lines 182-186: the worker's processText appends the terminator
\* only to content that is not empty
WorkerWithNewline(matcher, content, originalText) ==
    LET trailingNewline == TrailingNewline(originalText)
    IN  IF matcher.isReplacement /\ content # <<>>
           /\ ~EndsWith(content, <<"\n">>) /\ trailingNewline # <<>>
        THEN content \o trailingNewline
        ELSE content

\* worker.js lines 179-187: the span the worker pushes for a priority range
WorkerRangeSpan(ms, pRange) ==
    Span(ClassOf(ms[pRange.matcher]),
         WorkerWithNewline(ms[pRange.matcher],
                           getDisplayContent(ms[pRange.matcher], pRange.matchData),
                           pRange.matchData.text))

\* faulty variant of line 172: a cached match is used wherever the cursor is
NextMatch_KeepsCached(cached, regex, sourceText, cur, lastIndex) ==
    IF cached.kind # "match"
    THEN ExecFrom(regex, sourceText, cur, lastIndex)
    ELSE cached

\* lines 172-176: the cached match of a text matcher, refreshed when stale
NextMatch(cached, regex, sourceText, cur, lastIndex) ==
    IF cached.kind # "match" \/ cached.index < cur
    THEN ExecFrom(regex, sourceText, cur, lastIndex)
    ELSE cached

\* faulty variant of line 179: no candidate is discarded
Discarded_Never(match, limit) == FALSE

\* faulty variant of line 179: the end of the candidate is not compared
Discarded_StartOnly(match, limit) == match.index >= limit

\* line 179
Discarded(match, limit) == match.index >= limit \/ match.index + match.len > limit

\* faulty variants of line 180: the first rule with a candidate wins; the
\* length is not compared; a later rule wins a tie
Better_FirstCandidate(match, minIndex, bestLen) == minIndex = Infinity
Better_LeftmostOnly(match, minIndex, bestLen) == match.index < minIndex
Better_LastTie(match, minIndex, bestLen) ==
    match.index < minIndex \/ (match.index = minIndex /\ match.len >= bestLen)

\* line 180
Better(match, minIndex, bestLen) ==
    match.index < minIndex \/ (match.index = minIndex /\ match.len > bestLen)

\* lines 168-186: the for loop over the text matchers, from i on
RECURSIVE SelectBest(_, _, _, _)
SelectBest(nm, i, limit, best) ==
    IF i > Len(nm) THEN best
    ELSE IF nm[i] # Null /\ ~Discarded(nm[i], limit)
            /\ Better(nm[i], best.minIndex, best.bestLen)
         THEN SelectBest(nm, i + 1, limit,
                         [bestIdx |-> i, minIndex |-> nm[i].index, bestLen |-> nm[i].len])
         ELSE SelectBest(nm, i + 1, limit, best)

\* bestIdx counts from 1 here; 0 stands for the source's -1
NoBest == [bestIdx |-> 0, minIndex |-> Infinity, bestLen |-> 0]

(***************************************************************************)
(* State of one call processText(sourceText, keywordsValue).               *)
(***************************************************************************)
VARIABLES
    pc,              \* "call", "loop" (at the while test) or "done" (returned)
    sourceText,      \* the arguments of the call
    keywordsValue,
    matchers,        \* const matchers = this.buildMatchers(keywordsValue)
    priorityRanges,  \* the ranges of the pre-pass
    priorityIdx,     \* index of the next pending range (0-based)
    textMatchers,    \* matchers.filter(m => !m.isLineMode), as indices into matchers
    nextMatches,     \* the cached candidate of each text matcher
    cursor,
    matchCount,
    replaceCount,
    resultParts,     \* the spans pushed so far
    result,          \* the returned { html, matchCount, replaceCount }
    trace,           \* history: for each span pushed, its source span [start, end),
                     \* the cursor at the start of the iteration that pushed it and
                     \* its rule (index into matchers, 0 for an Original span)
    regexIndex,      \* m.regex.lastIndex of every matcher
    scan,            \* the number of the scan that uses the compiled matchers
    firstScan,       \* history: the source text and the result of the first scan
    currentId,       \* TMS.WorkerManager.currentId
    isLoading,       \* TMS.WorkerManager.isLoading
    useFallback,     \* TMS.WorkerManager.useFallback
    worker,          \* TMS.WorkerManager.worker is not null
    timer,           \* the timeout set at fileManager.js line 293 is pending
    inbox,           \* messages posted to the worker that it has not taken
    outbox,          \* messages posted by the worker that are not yet handled
    fallbackTimers,  \* the pending callbacks of line 281, in the order set
    job,             \* who runs processText: a direct call, the worker for a
                     \* message, or a callback of line 281
    display,         \* outputDiv.innerHTML, countMatch and countReplace
    toast,           \* the last message given to showToast
    posted,          \* history: the requests postMessage was called with
    handled,         \* history: the messages handleMessage was called with
    isSynced         \* TMS.STATE.isSynced: auto-sync (TRUE) or manual edit

\* the variables of the scans that follow the first one
reuseVars == << scan, firstScan >>

\* the variables of TMS.WorkerManager and of the worker's message queues
managerVars == << currentId, isLoading, useFallback, worker, timer, inbox, outbox,
                  fallbackTimers, job, display, toast, posted, handled, isSynced >>

vars == << pc, sourceText, keywordsValue, matchers, priorityRanges, priorityIdx,
           textMatchers, nextMatches, cursor, matchCount, replaceCount, resultParts, result, trace,
           regexIndex, reuseVars, managerVars >>

NoResult == [kind |-> "none"]
Returned(html, m, r) ==
    [kind |-> "result", html |-> html, matchCount |-> m, replaceCount |-> r]

Entry(start, end, at, rule) == [start |-> start, end |-> end, at |-> at, rule |-> rule]

(***************************************************************************)
(* The calls that are explored: every source text up to MaxSrcLen over a   *)
(* small alphabet, with every rule text of up to MaxRules different lines  *)
(* of a pool of rule lines, in four families (text mode, no rule, line     *)
(* mode, captures), and the documented examples.  A carriage return occurs *)
(* in a source text only as part of the terminator \r\n.                   *)
(***************************************************************************)
Seqs(alphabet, n) == UNION { [1..k -> alphabet] : k \in 0..n }

WellTerminated(s) == \A i \in 1..Len(s) : s[i] = "\r" => (i < Len(s) /\ s[i + 1] = "\n")

\* the rule texts of up to n different lines of a pool
RuleTexts(linePool, n) ==
    { Join(ls, <<"\n">>) :
        ls \in { l \in UNION { [1..k -> linePool] : k \in 1..n } :
                   \A i, j \in 1..Len(l) : i # j => l[i] # l[j] } }

\* text-mode rules: highlights, replacements, a deletion
TextRulePool ==
    { <<"a">>,
      <<"a", "b">>,
      <<"b", "a">>,
      <<"a", "/", "/", "/", "x">>,
      <<" ", "a", "b", " ", "/", "/", "/", " ", "y", " ">>,
      <<"b", "/", "/", "/", "[", "d", "e", "l", "]">> }

\* lines that yield no rule, and rules that match nothing over {a, b}
IdleRulePool ==
    { <<>>,
      <<"/", "/", "/", " ", "a">>,
      <<"[", "l", "i", "n", "e", "]", " ">>,
      <<"[", "o", "r", "]">>,
      <<"c">>,
      <<"[", "l", "i", "n", "e", "]", "c", "/", "/", "/", "x">> }

\* line-mode and text-mode rules over lines
LineRulePool ==
    { <<"[", "l", "i", "n", "e", "]", "a">>,
      <<"[", "l", "i", "n", "e", "]", "1", "/", "/", "/", "x">>,
      <<"[", "l", "i", "n", "e", "]", " ", "[", "n", "u", "m", "]", "/", "/", "/", "<", "$", "1", ">">>,
      <<"a">>,
      <<"1", "/", "/", "/", "y">> }

\* searches with wildcards
CaptureSearches ==
    { <<"[", "n", "u", "m", "]">>,
      <<"[", "n", "u", "m", "]", "a", "[", "n", "u", "m", "]">>,
      <<"a", "[", "n", "u", "m", "]", "[", "o", "r", "]", "[", "c", "j", "k", "]">>,
      <<"[", "c", "j", "k", "]", "[", "n", "u", "m", "]">> }

\* replacements with capture references and wildcard tokens
CaptureReplacements ==
    { <<"$", "1">>,
      <<"$", "2", ".", "$", "1">>,
      <<"[", "n", "u", "m", "]">>,
      <<"[", "c", "j", "k", "]">>,
      <<"[", "n", "u", "m", "]", "[", "c", "j", "k", "]">>,
      <<"[", "c", "j", "k", "]", "-", "[", "n", "u", "m", "]">>,
      <<"[", "n", "u", "m", "]", ":", "[", "n", "u", "m", "]">>,
      <<"$", "3", "$", "1", "$">>,
      <<"$", "3", "$", "1">>,
      <<"[", "n", "u", "m", "]", "0">>,
      <<"x">> }

\* the examples of the README and of the design notes
Examples ==
    { [src |-> <<"B", "a", "n", "a", "n", "a">>,
        kw |-> <<"n", "a", "\n", "B", "a">>],
      [src |-> <<"A", "p", "p", "l", "e", "J", "u", "i", "c", "e">>,
        kw |-> <<"A", "p", "p", "l", "e", "\n", "A", "p", "p", "l", "e", "J", "u", "i", "c", "e">>],
      [src |-> <<"T", "e", "s", "t">>,
        kw |-> <<"T", "e", "s", "t", "\n", "T", "e", "s", "t", "/", "/", "/", "D", "o", "n", "e">>],
      [src |-> <<"I", "D", ":", "1", "2", "3">>,
        kw |-> <<"I", "D", ":", "[", "n", "u", "m", "]", "/", "/", "/", "I", "D", "#", "$", "1">>],
      [src |-> <<"2", "0", "2", "4", "-", "0", "1">>,
        kw |-> <<"[", "n", "u", "m", "]", "-", "[", "n", "u", "m", "]", "/", "/", "/", "$", "2", ".", "$", "1">>],
      [src |-> <<"U", "s", "e", "r", "1", "2", "3">>,
        kw |-> <<"U", "s", "e", "r", "[", "n", "u", "m", "]", "/", "/", "/", "I", "D", ":", "[", "n", "u", "m", "]">>],
      [src |-> <<"L", "o", "g", " ", "1", "\n", "o", "k", "\n", "L", "o", "g", " ", "2", "\n">>,
        kw |-> <<"[", "l", "i", "n", "e", "]", "L", "o", "g", "/", "/", "/", "[", "d", "e", "l", "]">>],
      [src |-> <<"a", "<", "b", "&", "c">>,
        kw |-> <<"b", "/", "/", "/", "\"", "&", "\"">>] }

\* deletions, [del] inside a longer replacement, an empty replacement
DeleteRulePool ==
    { <<"[", "l", "i", "n", "e", "]", "a", "/", "/", "/", "[", "d", "e", "l", "]">>,
      <<"[", "l", "i", "n", "e", "]", "a", "/", "/", "/", " ", "[", "d", "e", "l", "]">>,
      <<"[", "l", "i", "n", "e", "]", "1", "/", "/", "/">>,
      <<"a", "/", "/", "/", "[", "d", "e", "l", "]">>,
      <<"a", "/", "/", "/", "[", "d", "e", "l", "]", "x">>,
      <<"[", "l", "i", "n", "e", "]", "a", "/", "/", "/", "x", "[", "d", "e", "l", "]">> }

\* rules with [or]: the alternatives (some empty), the forms of the token
\* with white space around it, and rules with the escaped token
OrTerms == { <<>>, <<"a">>, <<"a", "b">>, <<"b">> }
OrSeps == { OR_TOKEN, <<" ">> \o OR_TOKEN \o <<" ">> }
OrCases ==
    { [rule |-> a \o s \o b, terms |-> <<a, b>>] : a \in OrTerms, b \in OrTerms, s \in OrSeps }
    \cup { [rule |-> a \o OR_TOKEN \o b \o OR_TOKEN \o c, terms |-> <<a, b, c>>] :
             a \in {<<>>, <<"b">>}, b \in {<<>>, <<"a">>}, c \in {<<>>, <<"a", "b">>} }
EscapedOrCases ==
    { [rule |-> a \o ESCAPED_OR \o b, literal |-> a \o OR_TOKEN \o b] :
        a \in {<<>>, <<"a">>}, b \in {<<>>, <<"a">>} }
OrRules == { c.rule : c \in OrCases } \cup { c.rule : c \in EscapedOrCases }
OrSources ==
    { <<"a">>, <<"a", "b">>, <<"b", "a">>, <<"a", " ", "b">>, <<"b", "a", "b">>,
      <<"[", "o", "r", "]">>, <<"a", "[", "o", "r", "]", "a">>, <<"\\", "[", "o", "r", "]">>, <<"a", " ", "[", "o", "r", "]", " ", "b">> }

\* rule lines written from their parts: white space around the line and
\* around the separator, a [line] prefix, a search and a replacement; each
\* comes with the rules it is written to stand for (none for a blank line, a
\* comment or a line without a search)
Pads == { <<>>, <<" ">> }
LinePrefixes == { <<>>, LINE_TOKEN, LINE_TOKEN \o <<" ">> }
ParseSearches == { <<"a">>, <<"a", " ", "b">> }
ParseReplacements == { <<>>, <<"x">>, <<"x", "/", "/", "/", "y">>, <<"x", " ", "/", "/", "/", " ", "y">> }
Written(search, replace, isReplacement, isLineMode) ==
    [searchStr |-> search, replace |-> replace,
     isReplacement |-> isReplacement, isLineMode |-> isLineMode]
ParseCases ==
    { [line |-> po, rules |-> <<>>] : po \in Pads }
    \cup { [line |-> po \o SEPARATOR \o rest, rules |-> <<>>] :
             po \in Pads, rest \in { <<>>, <<" ", "a">>, <<"a", "/", "/", "/", "b">> } }
    \cup { [line |-> po \o pre \o s \o po,
            rules |-> <<Written(s, <<>>, FALSE, pre # <<>>)>>] :
             po \in Pads, pre \in LinePrefixes, s \in ParseSearches }
    \cup { [line |-> po \o pre \o s \o pi \o SEPARATOR \o pi \o r \o po,
            rules |-> <<Written(s, r, TRUE, pre # <<>>)>>] :
             po \in Pads, pi \in Pads, pre \in LinePrefixes,
             s \in ParseSearches, r \in ParseReplacements }
    \cup { [line |-> po \o LINE_TOKEN \o pi \o rest, rules |-> <<>>] :
             po \in Pads, pi \in Pads, rest \in { <<>>, SEPARATOR \o <<"x">> } }
ParseLines == { c.line : c \in ParseCases }
SecondLines == { <<"b">>, <<" ">>, <<"/", "/", "/", "c">>, <<"b", "/", "/", "/", "y">>, LINE_TOKEN }
ParseRules ==
    ParseLines \cup { l \o <<"\n">> \o k : l \in ParseLines, k \in SecondLines }
ParseSources == { <<"a", " ", "b">> }

\* sources with a lone carriage return, which ends a line for the line
\* regex, and rules whose search has one inside
BoundaryLinePool ==
    { <<"a">>, <<"a", "\r", "1">>, <<"1", "\r", "a">>,
      <<"[", "l", "i", "n", "e", "]", "1">>, <<"[", "l", "i", "n", "e", "]", "1", "/", "/", "/", "x">> }
BoundarySources == { <<"a", "\r", "1">>, <<"a", "\r", "1", "\n", "1">>, <<"1", "\r", "a", "\r", "1">> }
BoundaryRules ==
    RuleTexts(BoundaryLinePool, MaxRules)
    \cup { <<"a", "\n", "a", "\r", "1", "\n", "[", "l", "i", "n", "e", "]", "1">> }

\* rules with [line] in the replacement, and with the characters $LINE$
LineRefPool ==
    { <<"[", "l", "i", "n", "e", "]", "a", "/", "/", "/", "x", "[", "l", "i", "n", "e", "]">>,
      <<"a", "/", "/", "/", "[", "l", "i", "n", "e", "]">>,
      <<"[", "l", "i", "n", "e", "]", "[", "n", "u", "m", "]", "/", "/", "/", "[", "l", "i", "n", "e", "]">>,
      <<"1", "/", "/", "/", "$", "L", "I", "N", "E", "$">>,
      <<"[", "l", "i", "n", "e", "]", "a", "/", "/", "/", "$", "L", "I", "N", "E", "$">> }
LineRefRules == RuleTexts(LineRefPool, MaxRules)

TextSources == Seqs({"a", "b"}, MaxSrcLen)
TextRules == RuleTexts(TextRulePool, MaxRules)
IdleRules == RuleTexts(IdleRulePool, MaxRules)

LineSources == { s \in Seqs({"a", "1", "\n", "\r"}, MaxSrcLen) : WellTerminated(s) }
LineRules == RuleTexts(LineRulePool, MaxRules)

\* one rule of the deletion pool
DeleteRules == DeleteRulePool

CaptureSources == Seqs({"a", "1", "2", "U4E2D"}, MaxSrcLen)
CaptureRules == { f \o SEPARATOR \o r : f \in CaptureSearches, r \in CaptureReplacements }

\* TMS.Engine.processText called by itself, outside TMS.WorkerManager
DirectCall == [mode |-> "engine"]
\* the page as loaded: nothing rendered, the counters at 0
NoDisplay == [html |-> <<>>, countMatch |-> <<"0">>, countReplace |-> <<"0">>]

\* no scan has begun: processText is about to be called for the first time
NoFirst == [src |-> <<>>, result |-> NoResult, others |-> 0]

Called ==
    /\ pc = "call"
    /\ matchers = <<>>
    /\ priorityRanges = <<>>
    /\ priorityIdx = 0
    /\ textMatchers = <<>>
    /\ nextMatches = <<>>
    /\ cursor = 0
    /\ matchCount = 0
    /\ replaceCount = 0
    /\ resultParts = <<>>
    /\ result = NoResult
    /\ trace = <<>>
    /\ regexIndex = <<>>
    /\ scan = 1
    /\ firstScan = NoFirst
    /\ currentId = 0
    /\ isLoading = FALSE
    /\ useFallback = FALSE
    /\ worker = FALSE
    /\ timer = FALSE
    /\ inbox = <<>>
    /\ outbox = <<>>
    /\ fallbackTimers = <<>>
    /\ job = DirectCall
    /\ display = NoDisplay
    /\ toast = <<>>
    /\ posted = <<>>
    /\ handled = <<>>
    /\ isSynced = TRUE

Init ==
    /\ \/ \E s \in TextSources, k \in TextRules : sourceText = s /\ keywordsValue = k
       \/ \E s \in TextSources, k \in IdleRules : sourceText = s /\ keywordsValue = k
       \/ \E s \in LineSources, k \in LineRules : sourceText = s /\ keywordsValue = k
       \/ \E s \in CaptureSources, k \in CaptureRules : sourceText = s /\ keywordsValue = k
       \/ \E s \in LineSources, k \in DeleteRules : sourceText = s /\ keywordsValue = k
       \/ \E s \in OrSources, k \in OrRules : sourceText = s /\ keywordsValue = k
       \/ \E s \in ParseSources, k \in ParseRules : sourceText = s /\ keywordsValue = k
       \/ \E call \in Examples : sourceText = call.src /\ keywordsValue = call.kw
    /\ Called

\* faulty variants of lines 93-99: one early return for both cases; the
\* fast path tested before the empty source
EarlyReturn_EmptyForNoRules(source, ms) ==
    IF source = <<>> \/ Len(ms) = 0 THEN Returned(<<>>, 0, 0) ELSE NoResult
EarlyReturn_FastPathFirst(source, ms) ==
    IF Len(ms) = 0 THEN Returned(<<Span("diff-original", source)>>, 0, 0)
    ELSE IF source = <<>> THEN Returned(<<>>, 0, 0)
    ELSE NoResult

\* lines 93 and 97-99: the results returned before the main loop
EarlyReturn(source, ms) ==
    IF source = <<>> THEN Returned(<<>>, 0, 0)
    ELSE IF Len(ms) = 0 THEN Returned(<<Span("diff-original", source)>>, 0, 0)
    ELSE NoResult

\* lines 91-145: validation, compilation, fast path, pre-pass
Begin ==
    /\ pc = "call"
    /\ LET ms == IF sourceText = <<>> THEN <<>> ELSE buildMatchers(keywordsValue)
           early == EarlyReturn(sourceText, ms)
       IN  IF early # NoResult THEN
               /\ result' = early
               /\ pc' = "done"
               /\ UNCHANGED << matchers, priorityRanges, textMatchers, nextMatches,
                               regexIndex >>
           ELSE
               /\ matchers' = ms
               /\ priorityRanges' = PriorityRanges(ms, sourceText)
               /\ regexIndex' = ResetTextMatchers(ms, PrePass(ms, sourceText, NewIndexes(ms)).idx)
               /\ textMatchers' = FilterLineMode(ms, 1, FALSE)
               /\ nextMatches' = NewNextMatches(Len(FilterLineMode(ms, 1, FALSE)))
               /\ pc' = "loop"
               /\ UNCHANGED result
    /\ UNCHANGED << sourceText, keywordsValue, priorityIdx, cursor, matchCount,
                    replaceCount, resultParts, trace, reuseVars, managerVars >>

\* lines 148-165: the cursor is at the start of the next priority range
EmitPriorityRange ==
    /\ pc = "loop"
    /\ cursor < Len(sourceText)
    /\ priorityIdx < Len(priorityRanges)
    /\ LET pRange == priorityRanges[priorityIdx + 1]
           matcher == matchers[pRange.matcher]
           content == WithNewline(matcher, getDisplayContent(matcher, pRange.matchData),
                                  pRange.matchData.text)
       IN  /\ cursor = pRange.start
           /\ resultParts' = Append(resultParts,
                                    IF job.mode = "worker"
                                    THEN WorkerRangeSpan(matchers, pRange)
                                    ELSE Span(ClassOf(matcher), content))
           /\ trace' = Append(trace, Entry(pRange.start, pRange.end, cursor, pRange.matcher))
           /\ matchCount' = IF matcher.isReplacement THEN matchCount ELSE matchCount + 1
           /\ replaceCount' = IF matcher.isReplacement THEN replaceCount + 1 ELSE replaceCount
           /\ cursor' = pRange.end
           /\ priorityIdx' = priorityIdx + 1
    /\ UNCHANGED << pc, sourceText, keywordsValue, matchers, priorityRanges,
                    textMatchers, nextMatches, result, regexIndex, reuseVars, managerVars >>

\* line 167
Limit ==
    IF priorityIdx < Len(priorityRanges) THEN priorityRanges[priorityIdx + 1].start
    ELSE Infinity

\* lines 172-176 for every text matcher
Refreshed ==
    [i \in 1..Len(nextMatches) |->
        NextMatch(nextMatches[i], matchers[textMatchers[i]].regex, sourceText, cursor,
                  regexIndex[textMatchers[i]])]

\* lines 173-174: the lastIndex of every regex after the for loop, the
\* regex of a text matcher being left where its last exec ended
IndexesAfter(nm) ==
    [m \in 1..Len(matchers) |->
        IF \E i \in 1..Len(textMatchers) : textMatchers[i] = m
        THEN LET i == CHOOSE j \in 1..Len(textMatchers) : textMatchers[j] = m
             IN  IF nextMatches[i].kind # "match" \/ nextMatches[i].index < cursor
                 THEN IndexAfter(nm[i])
                 ELSE regexIndex[m]
        ELSE regexIndex[m]]

AtTextScan ==
    /\ pc = "loop"
    /\ cursor < Len(sourceText)
    /\ ~(priorityIdx < Len(priorityRanges) /\ cursor = priorityRanges[priorityIdx + 1].start)

\* lines 167-193 with bestIdx === -1: no candidate before the limit
EmitOriginal ==
    /\ AtTextScan
    /\ LET best == SelectBest(Refreshed, 1, Limit, NoBest)
           nextTarget == IF Limit = Infinity THEN Len(sourceText) ELSE Limit
       IN  /\ best.bestIdx = 0
           /\ IF nextTarget > cursor
              THEN /\ resultParts' = Append(resultParts,
                          Span("diff-original", Substring(sourceText, cursor, nextTarget)))
                   /\ trace' = Append(trace, Entry(cursor, nextTarget, cursor, 0))
              ELSE UNCHANGED << resultParts, trace >>
           /\ cursor' = nextTarget
    /\ nextMatches' = Refreshed
    /\ regexIndex' = IndexesAfter(Refreshed)
    /\ UNCHANGED << pc, sourceText, keywordsValue, matchers, priorityRanges, priorityIdx,
                    textMatchers, matchCount, replaceCount, result, reuseVars, managerVars >>

\* lines 167-186 and 195-203: the best candidate is emitted
EmitMatch ==
    /\ AtTextScan
    /\ LET best == SelectBest(Refreshed, 1, Limit, NoBest)
       IN  /\ best.bestIdx # 0
           /\ LET bestM == matchers[textMatchers[best.bestIdx]]
                  bestData == Refreshed[best.bestIdx]
                  gap == IF best.minIndex > cursor
                         THEN <<Span("diff-original",
                                     Substring(sourceText, cursor, best.minIndex))>>
                         ELSE <<>>
                  gapEntry == IF best.minIndex > cursor
                              THEN <<Entry(cursor, best.minIndex, cursor, 0)>>
                              ELSE <<>>
              IN  /\ resultParts' = resultParts \o gap
                         \o <<Span(ClassOf(bestM), getDisplayContent(bestM, bestData))>>
                  /\ trace' = trace \o gapEntry
                         \o <<Entry(best.minIndex, best.minIndex + bestData.len, cursor,
                                    textMatchers[best.bestIdx])>>
                  /\ matchCount' = IF bestM.isReplacement THEN matchCount ELSE matchCount + 1
                  /\ replaceCount' = IF bestM.isReplacement THEN replaceCount + 1
                                     ELSE replaceCount
                  /\ cursor' = best.minIndex + bestData.len
    /\ nextMatches' = Refreshed
    /\ regexIndex' = IndexesAfter(Refreshed)
    /\ UNCHANGED << pc, sourceText, keywordsValue, matchers, priorityRanges, priorityIdx,
                    textMatchers, result, reuseVars, managerVars >>

\* line 206: the loop has ended
Return ==
    /\ pc = "loop"
    /\ ~(cursor < Len(sourceText))
    /\ result' = Returned(resultParts, matchCount, replaceCount)
    /\ pc' = "done"
    /\ UNCHANGED << sourceText, keywordsValue, matchers, priorityRanges, priorityIdx,
                    textMatchers, nextMatches, cursor, matchCount, replaceCount,
                    resultParts, trace, regexIndex, reuseVars, managerVars >>

Next == Begin \/ EmitPriorityRange \/ EmitOriginal \/ EmitMatch \/ Return

Spec == Init /\ [][Next]_vars

(***************************************************************************)
(* The same call for sources in which a line ends at a lone carriage       *)
(* return: the line regex (flag m) ends the line before it and starts the  *)
(* next line after it, and a search may have one inside.                   *)
(***************************************************************************)
InitBoundary ==
    /\ \/ \E s \in BoundarySources, k \in BoundaryRules : sourceText = s /\ keywordsValue = k
       \/ \E s \in LineSources, k \in LineRules : sourceText = s /\ keywordsValue = k
    /\ Called

BoundarySpec == InitBoundary /\ [][Next]_vars

\* the same call for rules with [line] in the replacement
InitLineRef ==
    /\ \E s \in LineSources, k \in LineRefRules : sourceText = s /\ keywordsValue = k
    /\ Called

LineRefSpec == InitLineRef /\ [][Next]_vars

\* processText runs to completion on its thread: a step that can be taken
\* is taken.  This is weak fairness of Next, written out with what enables
\* Next: some step is possible exactly when the call has not returned.
LiveSpec == Init /\ [][Next]_vars /\ ([]<>(pc = "done") \/ []<><<Next>>_vars)

(***************************************************************************)
(* Scans that reuse the compiled matchers: the caller keeps the matchers   *)
(* of a rule text that has not changed (STATE.cachedMatchers, app.js lines *)
(* 279-284) and runs the scan of processText again, on the same or on      *)
(* another source text, with the regex objects as the last scan left them. *)
(***************************************************************************)
MaxScans == 3

ReuseSources ==
    { <<"a">>, <<"1", "a">>, <<"a", "\n", "a">>, <<"1", "\n", "a", "1">>, <<"a", "a", "1">> }
ReuseRules ==
    { <<"a">>,
      <<"[", "l", "i", "n", "e", "]", "a">>,
      <<"[", "l", "i", "n", "e", "]", "1", "/", "/", "/", "x", "\n", "a">>,
      <<"[", "n", "u", "m", "]", "/", "/", "/", "<", "$", "1", ">", "\n", "a", "1">> }

InitReuse ==
    /\ \E s \in ReuseSources, k \in ReuseRules : sourceText = s /\ keywordsValue = k
    /\ Called

\* engine.js lines 93-145 for another source text, with matchers standing
\* for STATE.cachedMatchers
Rescan ==
    /\ pc = "done"
    /\ scan < MaxScans
    /\ \E source \in ReuseSources \cup {<<>>} :
          LET early == EarlyReturn(source, matchers)
              pre == PrePass(matchers, source, regexIndex)
          IN  /\ sourceText' = source
              /\ IF early # NoResult THEN
                     /\ result' = early
                     /\ pc' = "done"
                     /\ UNCHANGED << priorityRanges, nextMatches, regexIndex >>
                 ELSE
                     /\ priorityRanges' = pre.ranges
                     /\ regexIndex' = ResetTextMatchers(matchers, pre.idx)
                     /\ nextMatches' = NewNextMatches(Len(textMatchers))
                     /\ pc' = "loop"
                     /\ result' = NoResult
              /\ firstScan' = IF scan = 1
                          THEN [src |-> sourceText, result |-> result, others |-> 0]
                          ELSE [firstScan EXCEPT !.others =
                                   IF sourceText # firstScan.src THEN @ + 1 ELSE @]
    /\ scan' = scan + 1
    /\ priorityIdx' = 0
    /\ cursor' = 0
    /\ matchCount' = 0
    /\ replaceCount' = 0
    /\ resultParts' = <<>>
    /\ trace' = <<>>
    /\ UNCHANGED << keywordsValue, matchers, textMatchers, managerVars >>

NextReuse == Begin \/ EmitPriorityRange \/ EmitOriginal \/ EmitMatch \/ Return \/ Rescan

ReuseSpec == InitReuse /\ [][NextReuse]_vars

(***************************************************************************)
(* TMS.WorkerManager (fileManager.js lines 209-346) with the worker of     *)
(* worker.js or, under the file: protocol, with the callbacks that call    *)
(* TMS.Engine.processText on the main thread.  The scan of a request is    *)
(* the scan modelled above: the worker runs it step by step beside the     *)
(* main thread, a callback runs it to its end before another handler of    *)
(* the main thread starts.                                                 *)
(***************************************************************************)
MaxId == 2

\* what the source and rule inputs hold when processText reads them
ManagerInputs ==
    { [src |-> <<>>, kw |-> <<"a">>],
      [src |-> <<"a">>, kw |-> <<"a">>],
      [src |-> <<"b", "\n">>, kw |-> <<"[", "l", "i", "n", "e", "]", "b", "/", "/", "/">>],
      [src |-> <<"b", "a">>, kw |-> <<"b", "/", "/", "/", "x">>] }

\* err.message of an error thrown inside processText
ErrMessage == <<"b", "o", "o", "m">>
UnknownError == <<"U", "n", "k", "n", "o", "w", "n", " ", "E", "r", "r", "o", "r">>
TimedOutToast == <<"S", "e", "a", "r", "c", "h", " ", "T", "i", "m", "e", "d", " ", "O", "u", "t", " ", "(", "T", "o", "o", " ", "c", "o", "m", "p", "l", "e", "x", ")">>
\* the element handleTimeout appends to the output
TimeoutWarning == [cls |-> "timeout-warning", text |-> <<"C", "a", "l", "c", "u", "l", "a", "t", "i", "o", "n", " ", "T", "i", "m", "e", "d", " ", "O", "u", "t", ".", " ", "P", "l", "e", "a", "s", "e", " ", "s", "i", "m", "p", "l", "i", "f", "y", " ", "y", "o", "u", "r", " ", "k", "e", "y", "w", "o", "r", "d", "s", ".">>]

NoJob == [mode |-> "none"]

engineVars == << pc, sourceText, keywordsValue, matchers, priorityRanges, priorityIdx,
                 textMatchers, nextMatches, cursor, matchCount, replaceCount, resultParts,
                 result, trace, regexIndex, reuseVars >>

\* the scan state between two calls of processText
NoScan ==
    /\ matchers = <<>>
    /\ priorityRanges = <<>>
    /\ priorityIdx = 0
    /\ textMatchers = <<>>
    /\ nextMatches = <<>>
    /\ cursor = 0
    /\ matchCount = 0
    /\ replaceCount = 0
    /\ resultParts = <<>>
    /\ result = NoResult
    /\ trace = <<>>
    /\ regexIndex = <<>>
    /\ scan = 1
    /\ firstScan = NoFirst

\* WorkerManager.init() has run: lines 217-222 under the file: protocol,
\* lines 223-226 otherwise (the Worker constructor is taken to succeed)
InitManager ==
    /\ pc = "idle"
    /\ sourceText = <<>>
    /\ keywordsValue = <<>>
    /\ NoScan
    /\ currentId = 0
    /\ isLoading = FALSE
    /\ useFallback \in BOOLEAN
    /\ worker = ~useFallback
    /\ timer = FALSE
    /\ inbox = <<>>
    /\ outbox = <<>>
    /\ fallbackTimers = <<>>
    /\ job = NoJob
    /\ display = NoDisplay
    /\ toast = <<>>
    /\ posted = <<>>
    /\ handled = <<>>
    /\ isSynced = TRUE

\* processText is entered with its two arguments
StartEngine(src, kw) ==
    /\ pc' = "call"
    /\ sourceText' = src
    /\ keywordsValue' = kw
    /\ UNCHANGED << matchers, priorityRanges, priorityIdx, textMatchers, nextMatches, cursor,
                    matchCount, replaceCount, resultParts, result, trace, regexIndex,
                    reuseVars >>

\* processText is left (return, throw, or the worker is terminated): its
\* locals are gone
StopEngine ==
    /\ pc' = "idle"
    /\ sourceText' = <<>>
    /\ keywordsValue' = <<>>
    /\ matchers' = <<>>
    /\ priorityRanges' = <<>>
    /\ priorityIdx' = 0
    /\ textMatchers' = <<>>
    /\ nextMatches' = <<>>
    /\ cursor' = 0
    /\ matchCount' = 0
    /\ replaceCount' = 0
    /\ resultParts' = <<>>
    /\ result' = NoResult
    /\ trace' = <<>>
    /\ regexIndex' = <<>>
    /\ UNCHANGED reuseVars

\* no handler of the main thread is running
MainThreadFree == job.mode # "fallback"

\* element.textContent = msg[name] for a count: the digits of the number,
\* and no text when the message has no such property
CountText(msg, name) == IF name \in DOMAIN msg THEN ToDecimal(msg[name]) ELSE <<>>

\* the request (index into posted) that postMessage gave an id
ReqOfId(id) == CHOOSE k \in 1..Len(posted) : posted[k].id = id

\* this.worker.terminate(): the worker stops where it is; a message it has
\* posted and the main thread has not handled may or may not arrive
Terminate ==
    /\ outbox' \in {outbox, <<>>}
    /\ IF job.mode = "worker"
       THEN job' = NoJob /\ StopEngine
       ELSE UNCHANGED << job, engineVars >>

\* lines 305-321: handleMessage(e) for e.data = msg; req is the request the
\* evaluation behind msg was started for
handleMessage(msg, req) ==
    LET shown == [html |-> IF "html" \in DOMAIN msg THEN msg.html ELSE <<>>,
                  countMatch |-> CountText(msg, "matchCount"),
                  countReplace |-> CountText(msg, "replaceCount")]
        accepted == msg.id = currentId
        rendered == accepted /\ msg.status = "success"
        newDisplay == IF rendered THEN shown ELSE display
    IN  /\ handled' = Append(handled,
                             [msg |-> msg, req |-> req, latest |-> Len(posted),
                              accepted |-> accepted, rendered |-> rendered,
                              kept |-> newDisplay = display])
        /\ display' = newDisplay
        /\ IF ~accepted THEN UNCHANGED << timer, isLoading, toast >>
           ELSE /\ timer' = FALSE
                /\ isLoading' = FALSE
                /\ IF msg.status = "success"
                   THEN UNCHANGED toast
                   ELSE /\ toast' = IF "message" \in DOMAIN msg /\ msg.message # <<>>
                                    THEN msg.message ELSE UnknownError

\* lines 270-303: postMessage(sourceText, keywordsValue)
postMessage(src, kw) ==
    LET terminate == isLoading /\ worker
        id == currentId + 1
    IN  /\ currentId' = id
        /\ isLoading' = TRUE
        /\ posted' = Append(posted, [id |-> id, src |-> src, kw |-> kw])
        /\ IF useFallback
           THEN /\ fallbackTimers' = Append(fallbackTimers,
                                            [sourceText |-> src, keywordsValue |-> kw,
                                             req |-> Len(posted) + 1])
                /\ UNCHANGED << worker, timer, inbox, outbox, job, engineVars >>
           ELSE /\ worker' = TRUE
                /\ timer' = TRUE
                /\ inbox' = Append(IF terminate THEN <<>> ELSE inbox,
                                   [id |-> id, sourceText |-> src, keywordsValue |-> kw])
                /\ IF terminate THEN Terminate ELSE UNCHANGED << outbox, job, engineVars >>
                /\ UNCHANGED fallbackTimers
        /\ UNCHANGED << useFallback, display, toast, handled >>

\* lines 251-263: WorkerManager.processText() in auto-sync mode
ReadAndPost ==
    \E in \in ManagerInputs :
        IF in.src = <<>>
        THEN /\ display' = NoDisplay
             /\ UNCHANGED << currentId, isLoading, useFallback, worker, timer, inbox, outbox,
                             fallbackTimers, job, toast, posted, handled, engineVars >>
        ELSE /\ currentId < MaxId
             /\ postMessage(in.src, in.kw)

\* lines 248-263: WorkerManager.processText(), called when the debounce timer
\* fires or a file is loaded; line 249 returns at once in manual edit mode
ProcessText ==
    /\ MainThreadFree
    /\ isSynced
    /\ ReadAndPost
    /\ UNCHANGED isSynced

\* lines 265-268: stopRendering()
StopRendering ==
    /\ MainThreadFree
    /\ currentId < MaxId
    /\ currentId' = currentId + 1
    /\ timer' = FALSE
    /\ isLoading' = FALSE
    /\ UNCHANGED << useFallback, worker, inbox, outbox, fallbackTimers, job, display, toast,
                    posted, handled, engineVars >>

\* part_002 lines 142-164: a click on btnSyncToggle switches to manual edit
\* and calls stopRendering, or switches back to auto-sync and calls processText
SyncToggle ==
    /\ MainThreadFree
    /\ isSynced' = ~isSynced
    /\ IF isSynced THEN StopRendering ELSE ReadAndPost

\* lines 325-331: the timeout of line 293 fires
HandleTimeout ==
    /\ MainThreadFree
    /\ timer
    /\ timer' = FALSE
    /\ worker' = FALSE
    /\ inbox' = <<>>
    /\ Terminate
    /\ isLoading' = FALSE
    /\ toast' = TimedOutToast
    /\ display' = [display EXCEPT !.html = Append(@, TimeoutWarning)]
    /\ UNCHANGED << currentId, useFallback, fallbackTimers, posted, handled, isSynced >>

\* worker.onmessage (line 226): a message of the worker reaches handleMessage
Deliver ==
    /\ MainThreadFree
    /\ outbox # <<>>
    /\ handleMessage(Head(outbox), ReqOfId(Head(outbox).id))
    /\ outbox' = Tail(outbox)
    /\ UNCHANGED << currentId, useFallback, worker, inbox, fallbackTimers, job, posted,
                    engineVars, isSynced >>

\* worker.js line 247: self.onmessage takes a message and calls processText
WorkerReceive ==
    /\ worker
    /\ inbox # <<>>
    /\ job = NoJob
    /\ job' = [mode |-> "worker", id |-> Head(inbox).id]
    /\ inbox' = Tail(inbox)
    /\ StartEngine(Head(inbox).sourceText, Head(inbox).keywordsValue)
    /\ UNCHANGED << currentId, isLoading, useFallback, worker, timer, outbox, fallbackTimers,
                    display, toast, posted, handled, isSynced >>

\* worker.js lines 249-250: processText has returned (lines 239-243)
WorkerPostResult ==
    /\ job.mode = "worker"
    /\ pc = "done"
    /\ outbox' = Append(outbox, [id |-> job.id, status |-> "success", html |-> result.html,
                                 countM |-> result.matchCount,
                                 countR |-> result.replaceCount])
    /\ job' = NoJob
    /\ StopEngine
    /\ UNCHANGED << currentId, isLoading, useFallback, worker, timer, inbox, fallbackTimers,
                    display, toast, posted, handled, isSynced >>

\* worker.js lines 251-253: processText has thrown
WorkerPostError ==
    /\ job.mode = "worker"
    /\ pc \in {"call", "loop"}
    /\ outbox' = Append(outbox, [id |-> job.id, status |-> "error", message |-> ErrMessage])
    /\ job' = NoJob
    /\ StopEngine
    /\ UNCHANGED << currentId, isLoading, useFallback, worker, timer, inbox, fallbackTimers,
                    display, toast, posted, handled, isSynced >>

\* lines 281-283: a callback of setTimeout(..., 10) starts
FallbackFire ==
    /\ fallbackTimers # <<>>
    /\ job = NoJob
    /\ job' = [mode |-> "fallback", req |-> Head(fallbackTimers).req]
    /\ fallbackTimers' = Tail(fallbackTimers)
    /\ StartEngine(Head(fallbackTimers).sourceText, Head(fallbackTimers).keywordsValue)
    /\ UNCHANGED << currentId, isLoading, useFallback, worker, timer, inbox, outbox, display,
                    toast, posted, handled, isSynced >>

\* lines 283-284: processText has returned inside the callback
FallbackResult ==
    /\ job.mode = "fallback"
    /\ pc = "done"
    /\ handleMessage([id |-> currentId, status |-> "success", html |-> result.html,
                      matchCount |-> result.matchCount,
                      replaceCount |-> result.replaceCount], job.req)
    /\ job' = NoJob
    /\ StopEngine
    /\ UNCHANGED << currentId, useFallback, worker, inbox, outbox, fallbackTimers, posted,
                    isSynced >>

\* lines 285-287: processText has thrown inside the callback
FallbackCatch ==
    /\ job.mode = "fallback"
    /\ pc \in {"call", "loop"}
    /\ handleMessage([id |-> currentId, status |-> "error", message |-> ErrMessage], job.req)
    /\ job' = NoJob
    /\ StopEngine
    /\ UNCHANGED << currentId, useFallback, worker, inbox, outbox, fallbackTimers, posted,
                    isSynced >>

NextManager ==
    \/ ProcessText \/ SyncToggle \/ HandleTimeout \/ Deliver
    \/ WorkerReceive \/ WorkerPostResult \/ WorkerPostError
    \/ FallbackFire \/ FallbackResult \/ FallbackCatch
    \/ Begin \/ EmitPriorityRange \/ EmitOriginal \/ EmitMatch \/ Return

ManagerSpec == InitManager /\ [][NextManager]_vars

(***************************************************************************)
(* Notions used to state the properties.                                   *)
(***************************************************************************)
IsTextRule(i) == ~matchers[i].isLineMode
IsLineRule(i) == matchers[i].isLineMode
Rules == 1..Len(matchers)

\* rule i has a match that starts at position p of str
HasMatchAt(i, str, p) ==
    \E a \in 1..Len(matchers[i].regex) : MatchItems(matchers[i].regex[a], 1, str, p).ok

\* the candidate of rule i for a cursor: its leftmost match at or after it
Candidate(i, cur) == RegExpExec(matchers[i].regex, sourceText, cur)

\* the spans pushed for a match of a text-mode rule
TextEntries == { k \in 1..Len(trace) : trace[k].rule # 0 /\ IsTextRule(trace[k].rule) }
\* the spans pushed for a priority range
LineEntries == { k \in 1..Len(trace) : trace[k].rule # 0 /\ IsLineRule(trace[k].rule) }

SpanLen(k) == trace[k].end - trace[k].start

\* rule i's candidate for the cursor of span k starts where span k starts
SameStart(i, k) ==
    Candidate(i, trace[k].at) # Null /\ Candidate(i, trace[k].at).index = trace[k].start

Tied(k) ==
    { i \in Rules : IsTextRule(i) /\ SameStart(i, k)
                    /\ Candidate(i, trace[k].at).len = SpanLen(k) }

AddedCount == Cardinality({ k \in 1..Len(resultParts) : resultParts[k].cls = "diff-add" })
ReplacedCount == Cardinality({ k \in 1..Len(resultParts) : resultParts[k].cls = "diff-replace" })

TestExample ==
    /\ sourceText = <<"T", "e", "s", "t">>
    /\ keywordsValue = <<"T", "e", "s", "t", "\n", "T", "e", "s", "t", "/", "/", "/", "D", "o", "n", "e">>

C3_FirstDefinedLaw ==
    /\ Len(trace) = Len(resultParts)
    /\ \A k \in TextEntries :
          LET first == Min(Tied(k))
          IN  /\ Tied(k) # {}
              /\ trace[k].rule = first
              /\ resultParts[k] = Span(ClassOf(matchers[first]),
                     getDisplayContent(matchers[first], Candidate(first, trace[k].at)))
    /\ matchCount = AddedCount
    /\ replaceCount = ReplacedCount
    /\ (TestExample /\ pc = "done") =>
          result = Returned(<<Span("diff-add", <<"T", "e", "s", "t">>)>>, 1, 0)

\* a highlight rule wins a tie against a replacement rule written after it
C3_Witness ==
    \E k \in TextEntries : \E i \in Tied(k) :
        /\ i > trace[k].rule
        /\ matchers[i].isReplacement /\ ~matchers[trace[k].rule].isReplacement
        /\ resultParts[k].cls = "diff-add"
        /\ pc = "done" /\ result.replaceCount = 0

(***************************************************************************)
(* The lines of the source text: a line ends after its "\n" (which a "\r"  *)
(* may precede) or at the end of the text.                                 *)
(***************************************************************************)
LineStarts == { s \in 0..(Len(sourceText) - 1) : s = 0 \/ sourceText[s] = "\n" }
LineEnd(s) ==
    LET nl == { e \in s..(Len(sourceText) - 1) : sourceText[e + 1] = "\n" }
    IN  IF nl = {} THEN Len(sourceText) ELSE Min(nl) + 1
SourceLines == { [start |-> s, end |-> LineEnd(s)] : s \in LineStarts }
LineText(L) == Substring(sourceText, L.start, L.end)

\* rule i matches a substring of line L
MatchesInLine(i, L) == \E p \in 0..(Len(LineText(L)) - 1) : HasMatchAt(i, LineText(L), p)
\* some line-mode rule matches a substring of line L
Claimed(L) == \E i \in Rules : IsLineRule(i) /\ MatchesInLine(i, L)

Overlaps(k, L) == trace[k].start < L.end /\ trace[k].end > L.start
Covers(k, L) == trace[k].start = L.start /\ trace[k].end = L.end

RangeLine(r) == [start |-> priorityRanges[r].start, end |-> priorityRanges[r].end]

IsBlankLine(line) == Trim(line) = <<>>
IsCommentLine(line) == StartsWith(Trim(line), SEPARATOR)
YieldsNoRule(kw) ==
    \A line \in { Split(kw, <<"\n">>)[n] : n \in 1..Len(Split(kw, <<"\n">>)) } :
        IsBlankLine(line) \/ IsCommentLine(line) \/ MatcherOfLine(line) = <<>>
MatchesNowhere ==
    \A i \in Rules : \A p \in 0..(Len(sourceText) - 1) : ~HasMatchAt(i, sourceText, p)

C6_NoRuleOrNoMatch ==
    (/\ pc = "done"
     /\ sourceText # <<>>
     /\ MatchesNowhere \/ YieldsNoRule(keywordsValue))
    => result = Returned(<<Span("diff-original", sourceText)>>, 0, 0)

\* there are rules, of both modes, and none matches
C6_Witness ==
    /\ pc = "done"
    /\ Len(sourceText) > 1
    /\ \E i, j \in Rules : IsLineRule(i) /\ IsTextRule(j)
    /\ MatchesNowhere
    /\ result = Returned(<<Span("diff-original", sourceText)>>, 0, 0)

(***************************************************************************)
(* C7  Empty source text.  For the empty source text the result has no     *)
(* span and both counts are 0, whatever the rule text; it is a result and  *)
(* not an error.                                                           *)
(***************************************************************************)
C7_EmptySource ==
    (pc = "done" /\ sourceText = <<>>) => result = Returned(<<>>, 0, 0)

\* the source text is empty and the rule text has rules
C7_Witness ==
    /\ pc = "done"
    /\ sourceText = <<>>
    /\ buildMatchers(keywordsValue) # <<>>
    /\ result = Returned(<<>>, 0, 0)

(***************************************************************************)
(* Rendering of a replacement, stated on the rule as it is written.        *)
(***************************************************************************)
\* the kinds of the [num] and [cjk] tokens of a text, left to right
RECURSIVE TokenKinds(_)
TokenKinds(s) ==
    IF s = <<>> THEN <<>>
    ELSE IF StartsWith(s, NUM_TOKEN) THEN <<"num">> \o TokenKinds(Substring(s, Len(NUM_TOKEN), Len(s)))
    ELSE IF StartsWith(s, CJK_TOKEN) THEN <<"cjk">> \o TokenKinds(Substring(s, Len(CJK_TOKEN), Len(s)))
    ELSE TokenKinds(Tail(s))

\* the spans pushed for a match of a replacement rule
ReplacedEntries ==
    { k \in 1..Len(trace) : trace[k].rule # 0 /\ matchers[trace[k].rule].isReplacement }

SourceOf(k) == Substring(sourceText, trace[k].start, trace[k].end)

\* the groups of the match span k was pushed for: a text-mode rule's match
\* at the start of the span, a line-mode rule's leftmost match in the line
GroupsOfEntry(k) ==
    LET regex == matchers[trace[k].rule].regex
    IN  IF IsLineRule(trace[k].rule)
        THEN RegExpExec(regex, SourceOf(k), 0).groups
        ELSE MatchAltsAt(regex, 1, sourceText, trace[k].start).groups

\* the text captured by the n-th wildcard, empty when it captured nothing
CapturedBy(groups, n) ==
    IF n \in 1..Len(groups) /\ groups[n] # Undefined THEN groups[n].val ELSE <<>>

\* the text of span k when its rule renders as content
ShownAs(k, content) ==
    LET matcher == matchers[trace[k].rule]
    IN  resultParts[k].text
          = escapeHtml(IF matcher.isLineMode
                       THEN WithNewline(matcher, content, SourceOf(k))
                       ELSE content)

\* every "$" of the replacement starts a capture reference, and the
\* replacement has no wildcard token and no [line]
OnlyCaptureRefs(replace) ==
    /\ \A j \in 1..Len(replace) :
          replace[j] = "$" => (j < Len(replace) /\ replace[j + 1] \in Digits)
    /\ TokenKinds(replace) = <<>>
    /\ ~Includes(replace, LINE_TOKEN)

\* the replacement with every $n replaced by the text of the n-th wildcard
RECURSIVE RenderRefs(_, _)
RenderRefs(replace, groups) ==
    IF replace = <<>> THEN <<>>
    ELSE IF Head(replace) = "$" THEN
        LET d == DigitRun(replace, 1)
        IN  CapturedBy(groups, ParseInt(Substring(replace, 1, 1 + d)))
            \o RenderRefs(Substring(replace, 1 + d, Len(replace)), groups)
    ELSE <<Head(replace)>> \o RenderRefs(Tail(replace), groups)

(***************************************************************************)
(* C8  Capture references.  A match has one group for each wildcard of the *)
(* search, in the order the wildcards are written.  In the span of a       *)
(* replacement rule whose replacement uses only $n references, every $n    *)
(* is rendered as the text captured by the n-th wildcard, and as the empty *)
(* string when that wildcard captured nothing or there are fewer than n    *)
(* wildcards; the other characters are kept.                               *)
(***************************************************************************)
C8_CaptureReferences ==
    \A k \in ReplacedEntries :
        LET matcher == matchers[trace[k].rule]
        IN  (~matcher.isDel /\ OnlyCaptureRefs(matcher.replace)) =>
                /\ Len(GroupsOfEntry(k)) = Len(TokenKinds(matcher.searchStr))
                /\ ShownAs(k, RenderRefs(matcher.replace, GroupsOfEntry(k)))

\* two wildcards captured different texts and the replacement swaps them
C8_Witness ==
    \E k \in ReplacedEntries :
        LET matcher == matchers[trace[k].rule]
            groups == GroupsOfEntry(k)
        IN  /\ OnlyCaptureRefs(matcher.replace)
            /\ IndexOf(matcher.replace, <<"$", "2">>) # -1
            /\ IndexOf(matcher.replace, <<"$", "2">>) < IndexOf(matcher.replace, <<"$", "1">>)
            /\ Len(groups) = 2
            /\ groups[1] # Undefined /\ groups[2] # Undefined
            /\ groups[1] # groups[2]
            /\ resultParts[k].text = groups[2].val \o <<".">> \o groups[1].val

\* the replacement with its i-th wildcard token replaced by the text of the
\* i-th wildcard of the search, tokens counted from `done`
RECURSIVE EchoTokens(_, _, _)
EchoTokens(replace, groups, done) ==
    IF replace = <<>> THEN <<>>
    ELSE IF StartsWith(replace, NUM_TOKEN) \/ StartsWith(replace, CJK_TOKEN) THEN
        CapturedBy(groups, done + 1)
        \o EchoTokens(Substring(replace, Len(NUM_TOKEN), Len(replace)), groups, done + 1)
    ELSE <<Head(replace)>> \o EchoTokens(Tail(replace), groups, done)

\* the tokens of the replacement agree in kind and order with the wildcards
\* of the search, and the replacement has no "$" and no [line]
EchoesSearch(matcher) ==
    /\ matcher.isReplacement /\ ~matcher.isDel
    /\ TokenKinds(matcher.replace) # <<>>
    /\ TokenKinds(matcher.replace) = TokenKinds(matcher.searchStr)
    /\ ~Includes(matcher.replace, <<"$">>)
    /\ ~Includes(matcher.replace, LINE_TOKEN)

(***************************************************************************)
(* C9  Positional wildcard echo.  When the [num] and [cjk] tokens of the   *)
(* replacement agree in kind and order with the wildcards of the search,   *)
(* the span of a match shows the replacement with its i-th token replaced  *)
(* by the text captured by the i-th wildcard of the search and every other *)
(* character as it is written.                                             *)
(***************************************************************************)
C9_PositionalEcho ==
    \A k \in ReplacedEntries :
        LET matcher == matchers[trace[k].rule]
        IN  EchoesSearch(matcher) =>
                ShownAs(k, EchoTokens(matcher.replace, GroupsOfEntry(k), 0))

\* the same for replacements in which no digit is written right after a token
NoDigitAfterToken(replace) ==
    \A j \in 1..Len(replace) :
        (replace[j] = "]" /\ j < Len(replace)) => replace[j + 1] \notin Digits

C9_EchoWithoutDigit ==
    \A k \in ReplacedEntries :
        LET matcher == matchers[trace[k].rule]
        IN  (EchoesSearch(matcher) /\ NoDigitAfterToken(matcher.replace)) =>
                ShownAs(k, EchoTokens(matcher.replace, GroupsOfEntry(k), 0))

\* a token is echoed next to characters of the replacement
C9_EchoReached ==
    \E k \in ReplacedEntries :
        LET matcher == matchers[trace[k].rule]
        IN  /\ EchoesSearch(matcher)
            /\ Len(TokenKinds(matcher.replace)) = 2
            /\ ShownAs(k, EchoTokens(matcher.replace, GroupsOfEntry(k), 0))
            /\ resultParts[k].text # <<>>

(***************************************************************************)
(* C10  Type mismatch stays literal.  For a replacement rule whose search  *)
(* captures only [num], every [cjk] written in the replacement is shown as *)
(* the characters [cjk]: the shown text has the replacement's [cjk] tokens *)
(* at the same places, and the text written between them, where it has no  *)
(* reference and no token, is unchanged.                                   *)
(***************************************************************************)
CapturesOnlyNum(matcher) ==
    /\ TokenKinds(matcher.searchStr) # <<>>
    /\ \A j \in 1..Len(TokenKinds(matcher.searchStr)) : TokenKinds(matcher.searchStr)[j] = "num"

IsPlain(piece) == ~Includes(piece, <<"$">>) /\ TokenKinds(piece) = <<>>

C10_MismatchStaysLiteral ==
    \A k \in ReplacedEntries :
        LET matcher == matchers[trace[k].rule]
            written == Split(matcher.replace, CJK_TOKEN)
            shown == Split(resultParts[k].text, CJK_TOKEN)
        IN  (IsTextRule(trace[k].rule) /\ ~matcher.isDel /\ CapturesOnlyNum(matcher)) =>
                /\ Len(shown) = Len(written)
                /\ \A j \in 1..Len(written) :
                       IsPlain(written[j]) => shown[j] = escapeHtml(written[j])

\* a [cjk] written before a [num] that is bound to the captured number
C10_Witness ==
    \E k \in ReplacedEntries :
        LET matcher == matchers[trace[k].rule]
        IN  /\ CapturesOnlyNum(matcher)
            /\ TokenKinds(matcher.replace) = <<"cjk", "num">>
            /\ StartsWith(resultParts[k].text, CJK_TOKEN)
            /\ EndsWith(resultParts[k].text, GroupsOfEntry(k)[1].val)

\* the replacement with every $n replaced by the text of the n-th wildcard
\* and every other "$" kept as one "$"
RECURSIVE RenderDollars(_, _)
RenderDollars(replace, groups) ==
    IF replace = <<>> THEN <<>>
    ELSE IF Head(replace) = "$" /\ DigitRun(replace, 1) > 0 THEN
        LET d == DigitRun(replace, 1)
        IN  CapturedBy(groups, ParseInt(Substring(replace, 1, 1 + d)))
            \o RenderDollars(Substring(replace, 1 + d, Len(replace)), groups)
    ELSE <<Head(replace)>> \o RenderDollars(Tail(replace), groups)

\* the replacement has a "$" that no digit follows
HasLiteralDollar(replace) ==
    \E j \in 1..Len(replace) :
        replace[j] = "$" /\ ~(j < Len(replace) /\ replace[j + 1] \in Digits)

(***************************************************************************)
(* C11  Literal dollar.  In the span of a replacement rule whose           *)
(* replacement has no wildcard token and no [line], every "$" that no      *)
(* digit follows is shown as exactly one "$" at its place, the references  *)
(* $n around it being rendered as the captured texts.                      *)
(***************************************************************************)
C11_LiteralDollar ==
    \A k \in ReplacedEntries :
        LET matcher == matchers[trace[k].rule]
        IN  (/\ ~matcher.isDel
             /\ HasLiteralDollar(matcher.replace)
             /\ TokenKinds(matcher.replace) = <<>>
             /\ ~Includes(matcher.replace, LINE_TOKEN))
            => ShownAs(k, RenderDollars(matcher.replace, GroupsOfEntry(k)))

\* what the code shows for such a "$": two "$"
C11_DollarDoubled ==
    \E k \in ReplacedEntries :
        LET matcher == matchers[trace[k].rule]
        IN  /\ HasLiteralDollar(matcher.replace)
            /\ EndsWith(matcher.replace, <<"1", "$">>)
            /\ EndsWith(resultParts[k].text, <<"1", "$", "$">>)

(***************************************************************************)
(* Deletion and line terminators.                                          *)
(***************************************************************************)
\* the text of the output: the texts of the spans, one after the other
OutputText == Flatten([k \in 1..Len(resultParts) |-> resultParts[k].text])

\* the number of lines of a text
CountLines(text) == Cardinality({ s \in 0..(Len(text) - 1) : s = 0 \/ text[s] = "\n" })

\* the rule text is the one rule [line]X///[del]
IsLineDelete == Len(matchers) = 1 /\ matchers[1].isLineMode /\ matchers[1].isDel

MatchingLines == { L \in SourceLines : MatchesInLine(1, L) }

\* the lines from position s on in which the rule has no match
RECURSIVE KeptFrom(_)
KeptFrom(s) ==
    IF s >= Len(sourceText) THEN <<>>
    ELSE LET L == [start |-> s, end |-> LineEnd(s)]
         IN  (IF MatchesInLine(1, L) THEN <<>> ELSE LineText(L)) \o KeptFrom(L.end)

RangeOfEntry(k) ==
    priorityRanges[CHOOSE r \in 1..Len(priorityRanges) : priorityRanges[r].start = trace[k].start]

\* the spans of line-mode replacement rules that are not [del] rules, for
\* lines that have a terminator
TerminatedReplacements ==
    { k \in LineEntries :
        /\ matchers[trace[k].rule].isReplacement
        /\ ~matchers[trace[k].rule].isDel
        /\ TrailingNewline(SourceOf(k)) # <<>> }

\* engine.js: the span ends with the terminator of its line
C13_EngineKeepsTerminator ==
    \A k \in TerminatedReplacements :
        EndsWith(resultParts[k].text, TrailingNewline(SourceOf(k)))

(***************************************************************************)
(* C13  Terminator preservation.  The Replaced span of a line-mode         *)
(* replacement rule that is not a [del] rule ends with the terminator of   *)
(* the matched line (\n or \r\n) whenever the line has one, also when the  *)
(* rendered replacement is empty; this holds for the span engine.js pushes *)
(* and for the span worker.js pushes for the same priority range.          *)
(***************************************************************************)
C13_TerminatorPreserved ==
    \A k \in TerminatedReplacements :
        /\ EndsWith(resultParts[k].text, TrailingNewline(SourceOf(k)))
        /\ EndsWith(WorkerRangeSpan(matchers, RangeOfEntry(k)).text,
                    TrailingNewline(SourceOf(k)))

\* an empty replacement on a line ended by \r\n: engine.js shows a blank line
C13_BlankLineReached ==
    \E k \in TerminatedReplacements :
        /\ TrailingNewline(SourceOf(k)) = <<"\r", "\n">>
        /\ resultParts[k].text = <<"\r", "\n">>

\* the rule text is one line that yields one rule
IsSingleRule == Len(Split(keywordsValue, <<"\n">>)) = 1 /\ Len(matchers) = 1

\* the replacement half of a rule line as it is written, trimmed
WrittenReplacement(line) ==
    Trim(Substring(Trim(line), IndexOf(Trim(line), SEPARATOR) + Len(SEPARATOR), Len(Trim(line))))

\* the source text from position p on with every match of rule 1 removed,
\* matches taken leftmost first and without overlap
RECURSIVE WithoutMatches(_)
WithoutMatches(p) ==
    IF p >= Len(sourceText) THEN <<>>
    ELSE IF HasMatchAt(1, sourceText, p)
         THEN WithoutMatches(p + MatchAltsAt(matchers[1].regex, 1, sourceText, p).len)
         ELSE <<sourceText[p + 1]>> \o WithoutMatches(p + 1)

(***************************************************************************)
(* C14  Text-mode delete.  Every match of a text-mode rule S///[del] gets  *)
(* one Replaced span with empty text, counted in replaceCount, and with    *)
(* that rule alone the output is the source text without the matches.  A   *)
(* rule is a [del] rule exactly when its trimmed replacement is [del]; a   *)
(* replacement that only contains [del] is shown as it is written.         *)
(***************************************************************************)
C14_TextDelete ==
    /\ \A k \in TextEntries :
          matchers[trace[k].rule].isDel =>
              resultParts[k] = [cls |-> "diff-replace", text |-> <<>>]
    /\ (pc = "done" /\ sourceText # <<>> /\ IsSingleRule
        /\ IsTextRule(1) /\ matchers[1].isDel) =>
          /\ OutputText = escapeHtml(WithoutMatches(0))
          /\ replaceCount = Cardinality(TextEntries)
          /\ matchCount = 0
    /\ (pc # "call" /\ IsSingleRule /\ matchers[1].isReplacement) =>
          /\ matchers[1].isDel <=> WrittenReplacement(keywordsValue) = DEL_TOKEN
          /\ \A k \in ReplacedEntries :
                (/\ Includes(WrittenReplacement(keywordsValue), DEL_TOKEN)
                 /\ WrittenReplacement(keywordsValue) # DEL_TOKEN)
                => ShownAs(k, WrittenReplacement(keywordsValue))

\* two matches are deleted and the text between them is kept
C14_Witness ==
    /\ pc = "done"
    /\ IsSingleRule /\ IsTextRule(1) /\ matchers[1].isDel
    /\ Cardinality(TextEntries) = 2
    /\ replaceCount = 2
    /\ Len(OutputText) = 1

\* a replacement that contains [del] next to other text is shown as written
C14_DelAsTextReached ==
    \E k \in ReplacedEntries :
        /\ IsTextRule(trace[k].rule)
        /\ resultParts[k].text = DEL_TOKEN \o <<"x">>

\* the spans of a sequence of spans that have a class
CountOf(parts, cls) == Cardinality({ k \in 1..Len(parts) : parts[k].cls = cls })

(***************************************************************************)
(* C15  Counts invariant.  At every point of the scan matchCount is the    *)
(* number of Added spans pushed and replaceCount the number of Replaced    *)
(* spans pushed, those with empty text included, so their sum is the       *)
(* number of spans that are not Original; the returned result has the      *)
(* same relation between its counts and its spans.                         *)
(***************************************************************************)
C15_CountsInvariant ==
    /\ matchCount = CountOf(resultParts, "diff-add")
    /\ replaceCount = CountOf(resultParts, "diff-replace")
    /\ matchCount + replaceCount
          = Cardinality({ k \in 1..Len(resultParts) : resultParts[k].cls # "diff-original" })
    /\ pc = "done" =>
          /\ result.matchCount = CountOf(result.html, "diff-add")
          /\ result.replaceCount = CountOf(result.html, "diff-replace")
          /\ result.matchCount + result.replaceCount
                = Cardinality({ k \in 1..Len(result.html) : result.html[k].cls # "diff-original" })

\* a result with an Added span and a Replaced span with empty text
C15_Witness ==
    /\ pc = "done"
    /\ result.matchCount > 0
    /\ \E k \in 1..Len(result.html) : result.html[k] = [cls |-> "diff-replace", text |-> <<>>]
    /\ result.matchCount + result.replaceCount = Len(result.html)

(***************************************************************************)
(* C16  Evaluation is deterministic and stateless: when the compiled       *)
(* matchers are reused for several scans, a scan of the source text of the *)
(* first scan returns the segments and the counts that the first scan      *)
(* returned, whatever was scanned in between; no regex position of one     *)
(* scan is read by the next.                                               *)
(***************************************************************************)
C16_StatelessScans ==
    (pc = "done" /\ scan > 1 /\ sourceText = firstScan.src) => result = firstScan.result

\* the third scan repeats the first one after a scan of another source text,
\* the first scan having left a regex of the set at a position past 0
C16_Witness ==
    /\ pc = "done"
    /\ scan = MaxScans
    /\ sourceText = firstScan.src
    /\ firstScan.others > 0
    /\ result = firstScan.result
    /\ result.matchCount + result.replaceCount > 0
    /\ \E m \in 1..Len(regexIndex) : regexIndex[m] > 0

\* term t, a literal text, occurs at position p of the source text
TermAt(t, p) == t # <<>> /\ StartsWithAt(sourceText, t, p)

\* the rule of the rule text is built from alternatives: the matcher matches
\* at a position when one of them occurs there, and it matches the first
\* one, in rule order, that does; with no alternative left there is no matcher
OrLaw(terms) ==
    IF \A j \in 1..Len(terms) : terms[j] = <<>>
    THEN matchers = <<>>
    ELSE /\ Len(matchers) = 1
         /\ \A p \in 0..Len(sourceText) :
               LET r == MatchAltsAt(matchers[1].regex, 1, sourceText, p)
                   hits == { j \in 1..Len(terms) : TermAt(terms[j], p) }
               IN  IF hits = {} THEN r = Null
                   ELSE r.kind = "match" /\ r.text = terms[Min(hits)]

\* the rule of the rule text holds an escaped [or]: one matcher, which
\* matches the written characters with [or] in them and nothing else
EscapedOrLaw(literal) ==
    /\ Len(matchers) = 1
    /\ Len(matchers[1].regex) = 1
    /\ \A p \in 0..Len(sourceText) :
          LET r == MatchAltsAt(matchers[1].regex, 1, sourceText, p)
          IN  IF StartsWithAt(sourceText, literal, p)
              THEN r.kind = "match" /\ r.text = literal
              ELSE r = Null

(***************************************************************************)
(* C17  Alternation.  A rule A[or]B, with or without white space around    *)
(* [or] and with its empty alternatives dropped, matches where A or B      *)
(* matches and matches the text of A or of B; a rule made of [or] tokens   *)
(* only yields no matcher; an escaped \[or] does not split the rule and    *)
(* matches the characters [or] of the source text.                         *)
(***************************************************************************)
C17_Alternation ==
    (pc # "call" /\ sourceText # <<>>) =>
        /\ \A c \in OrCases : keywordsValue = c.rule => OrLaw(c.terms)
        /\ \A c \in EscapedOrCases : keywordsValue = c.rule => EscapedOrLaw(c.literal)

\* a rule with white space around [or] has highlighted one occurrence of
\* each of its two alternatives, without the white space
C17_Witness ==
    /\ pc = "done"
    /\ keywordsValue = <<"a", " ">> \o OR_TOKEN \o <<" ", "b">>
    /\ sourceText = <<"a", " ", "b">>
    /\ result.html = << Span("diff-add", <<"a">>), Span("diff-original", <<" ">>),
                        Span("diff-add", <<"b">>) >>

\* a rule of [or] tokens only has left the source text as it is
C17_OnlyOrReached ==
    /\ pc = "done"
    /\ keywordsValue = OR_TOKEN \o OR_TOKEN
    /\ matchers = <<>>
    /\ result = Returned(<<Span("diff-original", sourceText)>>, 0, 0)

\* an escaped [or] has matched the characters [or] of the source text
C17_EscapedReached ==
    /\ pc = "done"
    /\ keywordsValue = ESCAPED_OR
    /\ sourceText = <<"\\">> \o OR_TOKEN
    /\ result.html = << Span("diff-original", <<"\\">>), Span("diff-add", OR_TOKEN) >>

\* what buildMatchers kept of the search and the replacement of a rule
Parsed(m) ==
    Written(m.searchStr, IF m.isReplacement THEN m.replace ELSE <<>>,
            m.isReplacement, m.isLineMode)

\* the rules the lines of a rule text are written to stand for, in order
ExpectedOf(line) == (CHOOSE c \in ParseCases : c.line = line).rules
ExpectedRules(lines) == Flatten([i \in 1..Len(lines) |-> ExpectedOf(lines[i])])

(***************************************************************************)
(* C18  Rule parsing.  buildMatchers yields the rules in the order of the  *)
(* rule text, one per accepted line: a blank line and a line whose trimmed *)
(* text starts with /// yield no rule; a line with /// elsewhere is split  *)
(* at its first /// into a trimmed search and a trimmed replacement, with  *)
(* isReplacement true; a line without /// is a highlight-only rule; a line *)
(* whose search is empty once trimmed and stripped of a leading [line]     *)
(* yields no rule.                                                         *)
(***************************************************************************)
C18_RuleParsing ==
    LET lines == Split(keywordsValue, <<"\n">>)
    IN  (/\ pc # "call"
         /\ sourceText # <<>>
         /\ \A i \in 1..Len(lines) : lines[i] \in ParseLines)
        => /\ \A i \in 1..Len(lines) :
                 \A c \in ParseCases : c.line = lines[i] => c.rules = ExpectedOf(lines[i])
           /\ [i \in 1..Len(matchers) |-> Parsed(matchers[i])] = ExpectedRules(lines)

\* a line split at the first of its two /// and a highlight-only line have
\* given two rules in the order of the lines, and both have acted
C18_Witness ==
    /\ pc = "done"
    /\ keywordsValue = <<" ", "a", " ">> \o SEPARATOR \o <<" ", "x">> \o SEPARATOR
                       \o <<"y", " ", "\n", "b">>
    /\ [i \in 1..Len(matchers) |-> Parsed(matchers[i])]
         = << Written(<<"a">>, <<"x">> \o SEPARATOR \o <<"y">>, TRUE, FALSE),
              Written(<<"b">>, <<>>, FALSE, FALSE) >>
    /\ result.replaceCount = 1
    /\ result.matchCount = 1

\* a comment line above a rule: the rule of the second line is the first rule
C18_SkippedLineReached ==
    /\ pc = "done"
    /\ keywordsValue = SEPARATOR \o <<" ", "a", "\n", "b">> \o SEPARATOR \o <<"y">>
    /\ Len(matchers) = 1
    /\ Parsed(matchers[1]) = Written(<<"b">>, <<"y">>, TRUE, FALSE)
    /\ result.replaceCount = 1

\* a line with [line] and no search before the separator has given no rule
C18_EmptySearchReached ==
    /\ pc = "done"
    /\ keywordsValue = LINE_TOKEN \o <<" ">> \o SEPARATOR \o <<"x">>
    /\ matchers = <<>>

\* the messages handleMessage was called with for request req
OutcomesOf(req) == { k \in 1..Len(handled) : handled[k].req = req }

\* the error outcomes handled so far
ErrorOutcomes == { k \in 1..Len(handled) : handled[k].msg.status = "error" }

(***************************************************************************)
(* C19  Error outcome.  When the evaluation of a request throws, the       *)
(* caller receives for that request one error outcome, which carries the   *)
(* id of the request and a message that is not empty, and no success       *)
(* outcome or second outcome; nothing of the failed evaluation is          *)
(* rendered: the displayed output and counts are as they were.             *)
(***************************************************************************)
C19_ErrorOutcome ==
    \A k \in ErrorOutcomes :
        /\ handled[k].msg.id = posted[handled[k].req].id
        /\ "message" \in DOMAIN handled[k].msg
        /\ handled[k].msg.message # <<>>
        /\ OutcomesOf(handled[k].req) = {k}
        /\ handled[k].kept

\* the same for the outcomes that come from the worker
C19_WorkerErrorOutcome ==
    useFallback \/ C19_ErrorOutcome

\* the worker has reported a thrown evaluation and the caller has taken it
\* as the outcome of the current request
C19_WorkerErrorReached ==
    /\ ~useFallback
    /\ \E k \in ErrorOutcomes : handled[k].accepted /\ toast = ErrMessage

(***************************************************************************)
(* C20  Superseded results are ignored.  In worker mode and in fallback    *)
(* mode, whatever the order of requests and replies, a result is rendered  *)
(* only when it was computed for the request posted last; the result of an *)
(* earlier request changes neither the displayed output nor the counts.    *)
(***************************************************************************)
C20_SupersededIgnored ==
    \A k \in 1..Len(handled) :
        handled[k].req # handled[k].latest => (~handled[k].rendered /\ handled[k].kept)

\* the same for the results that come from the worker
C20_WorkerSupersededIgnored ==
    useFallback \/ C20_SupersededIgnored

\* the reply of the worker to a superseded request has reached handleMessage
C20_WorkerSupersededReached ==
    /\ ~useFallback
    /\ \E k \in 1..Len(handled) :
          /\ handled[k].req # handled[k].latest
          /\ handled[k].msg.status = "success"

\* the replacement with its i-th wildcard token (every token counted, from
\* i) rewritten to $(i+1) when the i-th wildcard of the search has its kind
RECURSIVE PositionalRefs(_, _, _)
PositionalRefs(replace, kinds, i) ==
    IF replace = <<>> THEN <<>>
    ELSE IF StartsWith(replace, NUM_TOKEN) \/ StartsWith(replace, CJK_TOKEN) THEN
        LET kind == IF StartsWith(replace, NUM_TOKEN) THEN "num" ELSE "cjk"
            rest == Substring(replace, Len(NUM_TOKEN), Len(replace))
        IN  (IF i < Len(kinds) /\ kinds[i + 1] = kind
             THEN <<"$">> \o ToDecimal(i + 1)
             ELSE SubSeq(replace, 1, Len(NUM_TOKEN)))
            \o PositionalRefs(rest, kinds, i + 1)
    ELSE <<Head(replace)>> \o PositionalRefs(Tail(replace), kinds, i)

\* a replacement rule with wildcards whose replacement has no "$"
HasTokensOnly(matcher) ==
    /\ matcher.isReplacement
    /\ TokenKinds(matcher.searchStr) # <<>>
    /\ ~Includes(matcher.replace, <<"$">>)

(***************************************************************************)
(* C21  Replacement compilation is positional.  With every [num] and [cjk] *)
(* token of the replacement counted from left to right from 0, the i-th    *)
(* token becomes the reference $(i+1) exactly when the i-th wildcard of    *)
(* the search has its kind, and stays literal otherwise; a token that      *)
(* stays literal is counted like any other.                                *)
(***************************************************************************)
C21_PositionalCompilation ==
    \A r \in Rules :
        HasTokensOnly(matchers[r]) =>
            matchers[r].replacePattern
                = PositionalRefs(matchers[r].replace, TokenKinds(matchers[r].searchStr), 0)

\* a rule whose second token is compared with the first wildcard of the
\* search, the first token having stayed literal
C21_LiteralNotCounted ==
    \E r \in Rules :
        /\ HasTokensOnly(matchers[r])
        /\ TokenKinds(matchers[r].searchStr) = <<"cjk", "num">>
        /\ matchers[r].replace = NUM_TOKEN \o CJK_TOKEN
        /\ matchers[r].replacePattern = NUM_TOKEN \o <<"$", "1">>

\* the limit of the iteration that began with the cursor at position at: the
\* start of the first priority range not yet emitted
LimitAt(at) ==
    LET pending == { r \in 1..Len(priorityRanges) : priorityRanges[r].start >= at }
    IN  IF pending = {} THEN Infinity ELSE priorityRanges[Min(pending)].start

\* text rule i has a candidate for the cursor that starts before the limit
\* and ends beyond it
Straddles(i, at) ==
    LET c == Candidate(i, at)
    IN  c # Null /\ c.index < LimitAt(at) /\ c.index + c.len > LimitAt(at)

(***************************************************************************)
(* C22  A text-mode match never straddles a priority range.  The source    *)
(* span of every span emitted for a text-mode rule starts at or after the  *)
(* cursor of its iteration and ends at or before the start of the next     *)
(* pending priority range, and it shares no character with a priority      *)
(* range, that is with a line claimed by a line-mode rule.                 *)
(***************************************************************************)
C22_NoStraddle ==
    \A k \in TextEntries :
        /\ trace[k].start >= trace[k].at
        /\ trace[k].end <= LimitAt(trace[k].at)
        /\ \A r \in 1..Len(priorityRanges) :
              trace[k].end <= priorityRanges[r].start
              \/ trace[k].start >= priorityRanges[r].end

\* a text-mode rule was emitted before a pending priority range in an
\* iteration in which a longer candidate of another rule, from the same
\* start, reached into the range
C22_Witness ==
    \E k \in TextEntries :
        /\ LimitAt(trace[k].at) < Infinity
        /\ \E i \in Rules :
              /\ IsTextRule(i)
              /\ Straddles(i, trace[k].at)
              /\ Candidate(i, trace[k].at).index = trace[k].start

\* the iterations of the main loop that pushed a span, by their cursor
Cursors == { trace[k].at : k \in 1..Len(trace) }

\* text rule i has a candidate for the cursor that ends exactly at the limit
EndsAtLimit(i, at) ==
    LET c == Candidate(i, at)
    IN  c # Null /\ c.index + c.len = LimitAt(at)

(***************************************************************************)
(* C23  Boundary policy.  A text-mode candidate whose end is the limit,    *)
(* the start of the next pending priority range, is discarded: no span is  *)
(* emitted for it, whole or truncated.                                     *)
(***************************************************************************)
C23_EndAtLimitDiscarded ==
    \A at \in Cursors : \A i \in Rules :
        (IsTextRule(i) /\ EndsAtLimit(i, at)) =>
            ~\E k \in TextEntries :
                /\ trace[k].rule = i
                /\ trace[k].at = at
                /\ trace[k].start = Candidate(i, at).index

\* a candidate that ends exactly at the limit has come up in an iteration
C23_EndAtLimitReached ==
    \E at \in Cursors : \E i \in Rules : IsTextRule(i) /\ EndsAtLimit(i, at)

\* no candidate of a text rule ends where a priority range starts: a range
\* starts at 0 or after a line break, and a search cannot end with one
C23_NeverAtLimit ==
    \A r \in 1..Len(priorityRanges) : \A i \in Rules : \A p \in 0..Len(sourceText) :
        IsTextRule(i) =>
            LET c == MatchAltsAt(matchers[i].regex, 1, sourceText, p)
            IN  c = Null \/ c.index + c.len # priorityRanges[r].start

(***************************************************************************)
(* C24  Jump-scan memoization is transparent.  At every iteration of the   *)
(* loop and for every text-mode matcher, the candidate the iteration uses, *)
(* the cached one when it starts at or after the cursor and a recomputed   *)
(* one otherwise, is the leftmost match of the matcher at or after the     *)
(* cursor, with its groups: the scan chooses among the candidates a scan   *)
(* without cache would compute from the cursor.                            *)
(***************************************************************************)
C24_CacheTransparent ==
    (pc = "loop" /\ cursor < Len(sourceText)) =>
        \A i \in 1..Len(textMatchers) :
            Refreshed[i] = RegExpExec(matchers[textMatchers[i]].regex, sourceText, cursor)

\* after the cursor has moved, one matcher is served from the cache and
\* another one, whose cached match is behind the cursor, is run again
C24_Witness ==
    /\ pc = "loop"
    /\ 0 < cursor
    /\ cursor < Len(sourceText)
    /\ \E i, j \in 1..Len(textMatchers) :
          /\ nextMatches[i].kind = "match"
          /\ nextMatches[i].index >= cursor
          /\ Refreshed[i] = nextMatches[i]
          /\ nextMatches[j].kind = "match"
          /\ nextMatches[j].index < cursor
          /\ Refreshed[j].kind = "match"

(***************************************************************************)
(* C25  The scan terminates.  Every iteration of the loop strictly         *)
(* increases the cursor, the loop ends with the cursor equal to the length *)
(* of the source, and every call returns.                                  *)
(***************************************************************************)
LoopIteration == pc = "loop" /\ pc' = "loop"
LoopEnded == pc = "done" /\ matchers # <<>>

C25_Terminates ==
    /\ [][LoopIteration => cursor' > cursor]_vars
    /\ [](pc = "loop" => cursor <= Len(sourceText))
    /\ [](LoopEnded => cursor = Len(sourceText))
    /\ <>(pc = "done")

\* a scan that has ended after a priority range, an Original run and a
\* text match
C25_Witness ==
    /\ LoopEnded
    /\ cursor = Len(sourceText)
    /\ \E a, b, c \in 1..Len(trace) :
          /\ trace[a].rule = 0
          /\ trace[b].rule # 0 /\ matchers[trace[b].rule].isLineMode
          /\ trace[c].rule # 0 /\ ~matchers[trace[c].rule].isLineMode

(***************************************************************************)
(* C26  The worker engine and the main-thread fallback engine are the same *)
(* function.  FallbackEngine (app.js lines 1232-1427) is engine.js line by *)
(* line; worker.js differs from both in the span of a priority range only. *)
(* The claim: every span pushed for a priority range is the span worker.js *)
(* pushes for that range, so that the two html texts are equal.            *)
(***************************************************************************)
C26_SameEngine ==
    \A k \in LineEntries :
        resultParts[k] = WorkerRangeSpan(matchers, RangeOfEntry(k))

\* the two results differ: the fallback engine has returned a blank line
\* where the worker returns an empty span
C26_Diverges ==
    /\ pc = "done"
    /\ \E k \in LineEntries :
          /\ resultParts[k].text = <<"\n">>
          /\ WorkerRangeSpan(matchers, RangeOfEntry(k)).text = <<>>

(***************************************************************************)
(* C27  Whole-line reference.  In a line-mode replacement rule whose       *)
(* search has no wildcards every [line] of the replacement renders as the  *)
(* text of the matched line without its terminator; in a text-mode rule or *)
(* a rule with wildcards [line] is emitted as it is written; and a rule's  *)
(* template holds a whole-line reference under no other condition.         *)
(***************************************************************************)
\* the whole-line references getDisplayContent finds in a template
RECURSIVE LineRefs(_)
LineRefs(pattern) ==
    IF pattern = <<>> THEN 0
    ELSE IF StartsWith(pattern, LINE_REF)
         THEN 1 + LineRefs(Substring(pattern, Len(LINE_REF), Len(pattern)))
    ELSE IF StartsWith(pattern, <<"$", "$">>)
         THEN LineRefs(Substring(pattern, 2, Len(pattern)))
    ELSE LineRefs(Tail(pattern))

Occurrences(s, token) == Len(Split(s, token)) - 1

\* a rule that may refer to the whole line
MayReferToLine(r) ==
    /\ matchers[r].isReplacement
    /\ matchers[r].isLineMode
    /\ TokenKinds(matchers[r].searchStr) = <<>>

C27_WholeLineReference ==
    /\ \A r \in Rules :
          matchers[r].isReplacement =>
              LineRefs(matchers[r].replacePattern) =
                  IF MayReferToLine(r) THEN Occurrences(matchers[r].replace, LINE_TOKEN)
                  ELSE 0
    /\ \A k \in LineEntries :
          (MayReferToLine(trace[k].rule) /\ ~Includes(matchers[trace[k].rule].replace, <<"$">>)) =>
              getDisplayContent(matchers[trace[k].rule], RangeOfEntry(k).matchData)
                  = Join(Split(matchers[trace[k].rule].replace, LINE_TOKEN),
                         StripTerminator(SourceOf(k)))
    /\ \A k \in 1..Len(trace) :
          (/\ trace[k].rule # 0
           /\ matchers[trace[k].rule].isReplacement
           /\ ~MayReferToLine(trace[k].rule)
           /\ ~Includes(matchers[trace[k].rule].replace, <<"$">>)) =>
              Occurrences(resultParts[k].text, LINE_TOKEN)
                  = Occurrences(matchers[trace[k].rule].replace, LINE_TOKEN)

\* the same statement for rules whose replacement holds no "$": the
\* conditions of lines 72-74 are the only way to a whole-line reference
C27_WithoutDollar ==
    (\A r \in Rules : ~Includes(matchers[r].replace, <<"$">>)) => C27_WholeLineReference

\* a text-mode rule has rendered the matched text for the characters $LINE$
C27_TextRuleRefersToMatch ==
    /\ pc = "done"
    /\ \E k \in TextEntries :
          /\ matchers[trace[k].rule].replace = <<"$", "L", "I", "N", "E", "$">>
          /\ resultParts[k].text = <<"$">> \o SourceOf(k) \o <<"$">>

\* [line] rendered as the line in one rule and as it is written in another
C27_BothReached ==
    /\ pc = "done"
    /\ \E k \in LineEntries :
          /\ MayReferToLine(trace[k].rule)
          /\ Includes(matchers[trace[k].rule].replace, LINE_TOKEN)
          /\ TrailingNewline(SourceOf(k)) # <<>>
    /\ \E k \in 1..Len(trace) :
          /\ trace[k].rule # 0
          /\ ~MayReferToLine(trace[k].rule)
          /\ Includes(resultParts[k].text, LINE_TOKEN)

(***************************************************************************)
(* C28  The emitted segments partition the source.  In the order they are  *)
(* pushed their source spans are not empty, each starts where the one      *)
(* before ends, the first at 0, and they end at the cursor, which is the   *)
(* length of the source when the loop has ended; the text of an Original   *)
(* or Added segment is its source span (escaped for html); so with no      *)
(* replacement rule the returned html is the source text (escaped).        *)
(***************************************************************************)
TextOf(parts) == Flatten([k \in 1..Len(parts) |-> parts[k].text])

NoReplacementRule == \A r \in Rules : ~matchers[r].isReplacement

C28_Partition ==
    /\ Len(trace) = Len(resultParts)
    /\ \A k \in 1..Len(trace) :
          /\ trace[k].start < trace[k].end
          /\ trace[k].start = IF k = 1 THEN 0 ELSE trace[k - 1].end
          /\ (trace[k].rule = 0 \/ ~matchers[trace[k].rule].isReplacement) =>
                 resultParts[k].text = escapeHtml(SourceOf(k))
    /\ (pc = "loop" => cursor = IF trace = <<>> THEN 0 ELSE trace[Len(trace)].end)
    /\ (LoopEnded => trace # <<>> /\ trace[Len(trace)].end = Len(sourceText))
    /\ (LoopEnded /\ NoReplacementRule) => TextOf(result.html) = escapeHtml(sourceText)
    /\ (pc = "done" /\ ~LoopEnded) => TextOf(result.html) = escapeHtml(sourceText)

\* a scan without replacement rules has ended with three segments or more,
\* Original and Added
C28_Witness ==
    /\ LoopEnded
    /\ NoReplacementRule
    /\ Len(trace) >= 3
    /\ \E a, b \in 1..Len(trace) : trace[a].rule = 0 /\ trace[b].rule # 0
    /\ TextOf(result.html) = escapeHtml(sourceText)

(***************************************************************************)
(* C29  Manual edit mode.  Once the user has switched to manual edit       *)
(* (isSynced is false and stopRendering has been called) no result of the  *)
(* engine, not even that of a request posted before the switch, changes    *)
(* the displayed output or the counts until auto-sync is switched on       *)
(* again, in worker mode and in fallback mode.                             *)
(***************************************************************************)
C29_ManualEditFrozen == [][(~isSynced /\ ~isSynced') => display' = display]_vars

\* the same statement for worker mode alone
C29_WorkerModeFrozen ==
    [][(~useFallback /\ ~isSynced /\ ~isSynced') => display' = display]_vars

\* worker mode: the reply to a request posted before the switch has been
\* handled in manual edit mode and was ignored
C29_LateReplyIgnored ==
    /\ ~useFallback
    /\ ~isSynced
    /\ handled # <<>>
    /\ LET h == handled[Len(handled)]
       IN  h.msg.status = "success" /\ ~h.accepted /\ h.msg.id < currentId

\* fallback mode: the result of a request posted before the switch has been
\* rendered in manual edit mode
C29_LateResultRendered ==
    /\ useFallback
    /\ ~isSynced
    /\ handled # <<>>
    /\ LET h == handled[Len(handled)]
       IN  h.rendered /\ ~h.kept /\ posted[h.req].id < currentId

(***************************************************************************)
(* C30  First alternative wins inside a rule.  When several alternatives   *)
(* of a rule with [or] match where the rule's match starts, the emitted    *)
(* match is that of the alternative written first, also when a later one   *)
(* matches a longer text there; the longest match is preferred only among  *)
(* the candidates of different rules.                                      *)
(***************************************************************************)
\* a search made of literal alternatives: no wildcard, no escaped [or]
PlainOr(r) ==
    /\ TokenKinds(matchers[r].searchStr) = <<>>
    /\ ~Includes(matchers[r].searchStr, ESCAPED_OR)
    /\ ~Includes(matchers[r].searchStr, OR_KEYWORD_PLACEHOLDER)

\* the alternatives of rule r in the order they are written
WrittenAlternatives(r) == NonEmpty(SplitOr(matchers[r].searchStr))

\* the alternatives of rule r that match at position p of the source
MatchingAt(r, p) ==
    { a \in 1..Len(WrittenAlternatives(r)) :
        StartsWithAt(sourceText, WrittenAlternatives(r)[a], p) }

C30_FirstAlternativeWins ==
    \A k \in TextEntries :
        PlainOr(trace[k].rule) =>
            /\ MatchingAt(trace[k].rule, trace[k].start) # {}
            /\ SpanLen(k) = Len(WrittenAlternatives(trace[k].rule)
                                    [Min(MatchingAt(trace[k].rule, trace[k].start))])
            /\ \A r \in Rules :
                  (/\ r # trace[k].rule
                   /\ IsTextRule(r)
                   /\ PlainOr(r)
                   /\ MatchingAt(r, trace[k].start) # {}) =>
                      Len(WrittenAlternatives(r)[Min(MatchingAt(r, trace[k].start))])
                          <= SpanLen(k)

\* a later alternative of the emitted rule matches a longer text at the
\* start of the emitted match
C30_Witness ==
    \E k \in TextEntries :
        /\ PlainOr(trace[k].rule)
        /\ \E b \in MatchingAt(trace[k].rule, trace[k].start) :
              /\ b > Min(MatchingAt(trace[k].rule, trace[k].start))
              /\ Len(WrittenAlternatives(trace[k].rule)[b]) > SpanLen(k)

====
